---------------------------- MODULE Spec2Model ----------------------------
(***************************************************************************)
(* Bank-statement import: parsePDF, its helpers and                        *)
(* convertPDFToTransactions (lib/pdfParser.ts, the revision with the       *)
(* isFuture flag), parseCSV and convertToTransactions (lib/csvParser.ts),  *)
(* and handleFile of the import dialog, which calls them; the loops of     *)
(* extractTransactionsFromLines and of extractSicoobTransactionsFromTokens *)
(* (the token-stream revision of lib/pdfParser.ts) step by step; and the   *)
(* loading of the selected account's data in hooks/useTransactions.ts.     *)
(*                                                                         *)
(* A JavaScript string is modelled as a sequence of one-character strings, *)
(* so that the regular expressions, substring/trim/padStart calls and the  *)
(* date formatting are computed character by character.  A money value is  *)
(* the integer number of cents of the parsed float.                        *)
(***************************************************************************)
EXTENDS Integers, Sequences, FiniteSets, TLC

\* The state of one import: handleFile of the import dialog, which calls
\* parsePDF followed by convertPDFToTransactions.
VARIABLES
    pc,               \* "start", "pages" (in the page loop), "returned",
                      \* "converted"; "rejected" (parsePDF threw), "failed"
                      \* (handleFile caught); "called"/"done" for a single call
    today,            \* the local calendar day of the run
    utcOffset,        \* the local time zone
    numPages,         \* pdf.numPages
    i,                \* the page loop variable
    statementYear,
    allTransactions,
    withYear,
    unique,           \* the value parsePDF returns
    converted,        \* the value convertPDFToTransactions returns
    headerSeen,       \* history: a future-section header line was on a page read so far
    skipLineSeen,     \* history: a line with SALDO, BLOQ or LIMITE was on a page read so far
    firstFullDate,    \* history: page and year of the first DD/MM/YYYY of the statement
    preview,          \* the dialog's preview list
    error,            \* the dialog's error message
    previewBefore,    \* history: the preview list when handleFile was called
    failedPage,       \* history: the page whose decoding failed (0: the opening)
    call,             \* a single call of a parser function: its argument and result
    frame,            \* the locals of an extractor whose loops run step by step
                      \* (its index is i, its transactions are call.res)
    hook,             \* useTransactions: selectedAccount and the useState values
    requests,         \* the supabase queries of the hook that have not resolved
    switches          \* the number of account selections so far

-----------------------------------------------------------------------------
(* Characters and the String.prototype methods the parser relies on.       *)

Digits == <<"0", "1", "2", "3", "4", "5", "6", "7", "8", "9">>

IsDigit(c) == c \in {"0", "1", "2", "3", "4", "5", "6", "7", "8", "9"}

DigitVal(c) == (CHOOSE k \in 1..10 : Digits[k] = c) - 1

Lower == <<"a", "b", "c", "d", "e", "f", "g", "h", "i", "j", "k", "l", "m",
           "n", "o", "p", "q", "r", "s", "t", "u", "v", "w", "x", "y", "z",
           "ç", "í">>

Upper == <<"A", "B", "C", "D", "E", "F", "G", "H", "I", "J", "K", "L", "M",
           "N", "O", "P", "Q", "R", "S", "T", "U", "V", "W", "X", "Y", "Z",
           "Ç", "Í">>

\* \w of a JavaScript regular expression: [A-Za-z0-9_]
IsWordChar(c) ==
    \/ IsDigit(c)
    \/ c = "_"
    \/ \E k \in 1..26 : c = Lower[k] \/ c = Upper[k]

\* \s, and the white space String.prototype.trim removes (extractTokens
\* already turned U+00A0 into a blank)
IsSpace(c) == c \in {" ", "\n", "\r", "\t"}

UpperChar(c) ==
    IF \E k \in 1..Len(Lower) : Lower[k] = c
    THEN Upper[CHOOSE k \in 1..Len(Lower) : Lower[k] = c]
    ELSE c

toUpperCase(s) == [k \in 1..Len(s) |-> UpperChar(s[k])]

\* s.substring(from, to) with 0-based, end-exclusive JavaScript indices
substring(s, from, to) ==
    LET a == IF from < 0 THEN 0 ELSE IF from > Len(s) THEN Len(s) ELSE from
        b == IF to < 0 THEN 0 ELSE IF to > Len(s) THEN Len(s) ELSE to
        lo == IF a <= b THEN a ELSE b
        hi == IF a <= b THEN b ELSE a
    IN  SubSeq(s, lo + 1, hi)

trim(s) ==
    IF \A k \in 1..Len(s) : IsSpace(s[k]) THEN <<>>
    ELSE LET first == CHOOSE k \in 1..Len(s) :
                         /\ ~IsSpace(s[k])
                         /\ \A j \in 1..(k - 1) : IsSpace(s[j])
             last == CHOOSE k \in 1..Len(s) :
                         /\ ~IsSpace(s[k])
                         /\ \A j \in (k + 1)..Len(s) : IsSpace(s[j])
         IN  SubSeq(s, first, last)

\* s.replace(/\s+/g, ' '): every run of blanks becomes one blank
RECURSIVE CollapseBetween(_, _, _)
CollapseBetween(s, lo, hi) ==
    IF lo > hi THEN <<>>
    ELSE IF lo = hi
    THEN IF IsSpace(s[lo]) /\ lo > 1 /\ IsSpace(s[lo - 1]) THEN <<>> ELSE <<s[lo]>>
    ELSE CollapseBetween(s, lo, (lo + hi) \div 2)
             \o CollapseBetween(s, (lo + hi) \div 2 + 1, hi)

collapseWhitespace(s) == CollapseBetween(s, 1, Len(s))

\* s.includes(kw)
includes(s, kw) ==
    \E p \in 1..(Len(s) - Len(kw) + 1) :
        \A k \in 1..Len(kw) : s[p + k - 1] = kw[k]

\* s.padStart(n, '0')
RECURSIVE padStart(_, _)
padStart(s, n) == IF Len(s) >= n THEN s ELSE padStart(<<"0">> \o s, n)

\* parseInt(s, 10) / Number(s) of a string of decimal digits
RECURSIVE DigitsToNat(_)
DigitsToNat(s) ==
    IF s = <<>> THEN 0
    ELSE 10 * DigitsToNat(SubSeq(s, 1, Len(s) - 1)) + DigitVal(s[Len(s)])

\* `${n}` of a non-negative integer
RECURSIVE NatToString(_)
NatToString(n) ==
    IF n < 10 THEN <<Digits[n + 1]>>
    ELSE NatToString(n \div 10) \o <<Digits[(n % 10) + 1]>>

\* s.split('/')
RECURSIVE split(_, _)
split(s, sep) ==
    IF \A k \in 1..Len(s) : s[k] # sep THEN <<s>>
    ELSE LET p == CHOOSE k \in 1..Len(s) :
                      s[k] = sep /\ \A j \in 1..(k - 1) : s[j] # sep
         IN  <<SubSeq(s, 1, p - 1)>> \o split(SubSeq(s, p + 1, Len(s)), sep)

\* parts.join(' ')
RECURSIVE join(_)
join(parts) ==
    IF parts = <<>> THEN <<>>
    ELSE IF Len(parts) = 1 THEN parts[1]
    ELSE parts[1] \o <<" ">> \o join(Tail(parts))

-----------------------------------------------------------------------------
(* extractTransactionsFromLines: patterns and predicates.                  *)

MinDescriptionLength == 2

MaxCombinedLength == 400

\* \d{2}\/\d{2} at 1-based position p of s
IsDDMMAt(s, p) ==
    /\ p + 4 <= Len(s)
    /\ IsDigit(s[p]) /\ IsDigit(s[p + 1])
    /\ s[p + 2] = "/"
    /\ IsDigit(s[p + 3]) /\ IsDigit(s[p + 4])

\* \b right after the word character s[k]
BoundaryAfter(s, k) == k = Len(s) \/ ~IsWordChar(s[k + 1])

\* \b right before the word character s[k]
BoundaryBefore(s, k) == k = 1 \/ ~IsWordChar(s[k - 1])

\* datePattern = /^(\d{2}\/\d{2}(?:\/\d{2})?)\b/ : length of the match, 0 for null.
\* The optional /YY group is tried first and given up when \b fails after it.
datePattern(s) ==
    IF ~IsDDMMAt(s, 1) THEN 0
    ELSE IF /\ Len(s) >= 8
            /\ s[6] = "/" /\ IsDigit(s[7]) /\ IsDigit(s[8])
            /\ BoundaryAfter(s, 8)
         THEN 8
    ELSE IF BoundaryAfter(s, 5) THEN 5
    ELSE 0

\* number of consecutive digits of s from position p on, counted up to 4
DigitRun(s, p) ==
    IF p > Len(s) \/ ~IsDigit(s[p]) THEN 0
    ELSE IF p + 1 > Len(s) \/ ~IsDigit(s[p + 1]) THEN 1
    ELSE IF p + 2 > Len(s) \/ ~IsDigit(s[p + 2]) THEN 2
    ELSE IF p + 3 > Len(s) \/ ~IsDigit(s[p + 3]) THEN 3
    ELSE 4

\* (?:\.\d{3})* from position q: the position after the last group taken
RECURSIVE ThousandsGroups(_, _)
ThousandsGroups(s, q) ==
    IF q <= Len(s) /\ s[q] = "." /\ DigitRun(s, q + 1) >= 3
    THEN ThousandsGroups(s, q + 4)
    ELSE q

\* position after \s* from position q
RECURSIVE SkipSpaces(_, _)
SkipSpaces(s, q) ==
    IF q <= Len(s) /\ IsSpace(s[q]) THEN SkipSpaces(s, q + 1) ELSE q

NoMatch == [ok |-> FALSE]

\* valuePattern = /(\d{1,3}(?:\.\d{3})*,\d{2})\s*([CD\*])?/gi anchored at
\* position p.  \d{1,3} must be followed by '.' or ',', so a run of more
\* than three digits cannot start a match; index and lastIndex are 0-based.
valuePatternAt(s, p) ==
    LET run == DigitRun(s, p)
        q   == ThousandsGroups(s, p + run)
        e   == q + 3
        r   == SkipSpaces(s, e)
        hasSuffix == r <= Len(s) /\ UpperChar(s[r]) \in {"C", "D", "*"}
    IN  IF /\ run \in 1..3
           /\ q + 2 <= Len(s)
           /\ s[q] = "," /\ IsDigit(s[q + 1]) /\ IsDigit(s[q + 2])
        THEN [ok        |-> TRUE,
              index     |-> p - 1,
              numStr    |-> SubSeq(s, p, q + 2),
              suffix    |-> IF hasSuffix THEN <<s[r]>> ELSE <<>>,
              lastIndex |-> IF hasSuffix THEN r ELSE r - 1]
        ELSE NoMatch

\* valuePattern.exec(s) with the given lastIndex: the leftmost match
valuePatternExec(s, lastIndex) ==
    IF \A p \in (lastIndex + 1)..Len(s) : ~valuePatternAt(s, p).ok THEN NoMatch
    ELSE valuePatternAt(s, CHOOSE p \in (lastIndex + 1)..Len(s) :
                               /\ valuePatternAt(s, p).ok
                               /\ \A q \in (lastIndex + 1)..(p - 1) :
                                      ~valuePatternAt(s, q).ok)

hasAnyValue(text) == valuePatternExec(text, 0).ok

\* parseFloat(numStr.replace(/\./g, '').replace(',', '.')), in cents
parseValue(numStr) ==
    DigitsToNat(SelectSeq(numStr, LAMBDA c : IsDigit(c)))

skipKeywords ==
    << <<"S","A","L","D","O">>,
       <<"B","L","O","Q">>,
       <<"L","I","M","I","T","E">>,
       <<"R","E","S","U","M","O">>,
       <<"A","N","T","E","R","I","O","R">>,
       <<"D","I","S","P","O","N","Í","V","E","L">> >>

\* shouldSkip with SALDO missing from the keyword list
shouldSkipWithoutSaldo(text) ==
    \E k \in 2..Len(skipKeywords) : includes(toUpperCase(text), skipKeywords[k])

shouldSkip(text) ==
    \E k \in 1..Len(skipKeywords) : includes(toUpperCase(text), skipKeywords[k])

\* the literal kw at 1-based position p of s
LiteralAt(s, p, kw) ==
    p + Len(kw) - 1 <= Len(s) /\ SubSeq(s, p, p + Len(kw) - 1) = kw

\* /LAN[CÇ]AMENTOS?\s*FUTUROS?/i at position p of the upper-cased text
LancamentosFuturosAt(u, p) ==
    /\ LiteralAt(u, p, <<"L","A","N">>)
    /\ p + 3 <= Len(u) /\ u[p + 3] \in {"C", "Ç"}
    /\ LiteralAt(u, p + 4, <<"A","M","E","N","T","O">>)
    /\ LET q == IF p + 10 <= Len(u) /\ u[p + 10] = "S" THEN p + 11 ELSE p + 10
       IN  LiteralAt(u, SkipSpaces(u, q), <<"F","U","T","U","R","O">>)

\* /LANC\.\s*FUTUROS?/i at position p of the upper-cased text
LancFuturosAt(u, p) ==
    /\ LiteralAt(u, p, <<"L","A","N","C",".">>)
    /\ LiteralAt(u, SkipSpaces(u, p + 5), <<"F","U","T","U","R","O">>)

isFutureSectionHeader(text) ==
    LET u == toUpperCase(text)
    IN  \/ \E p \in 1..Len(u) : LancamentosFuturosAt(u, p)
        \/ \E p \in 1..Len(u) : LancFuturosAt(u, p)
        \/ includes(u, <<"P","R","E","V","I","S","T","O">>)
        \/ includes(u, <<"A","G","E","N","D","A","D","O">>)

expenseKeywords ==
    << <<"D","E","B">>,
       <<"E","M","I","T">>,
       <<"T","A","R","I","F","A">>,
       <<"P","A","G","A","M","E","N","T","O">>,
       <<"S","A","Q","U","E">>,
       <<"T","E","D">>,
       <<"D","O","C">>,
       <<"P","I","X"," ","E","N","V">>,
       <<"T","R","A","N","S","F",".">> >>

incomeKeywords ==
    << <<"R","E","C">>,
       <<"C","R","E","D">>,
       <<"D","E","P">>,
       <<"P","I","X"," ","R","E","C">>,
       <<"T","R","A","N","S","F"," ","R","E","C">> >>

\* the else branch with the income keywords consulted before the expense ones
typeIncomeFirst(description) ==
    LET descUpper == toUpperCase(description)
    IN  IF \E k \in 1..Len(incomeKeywords) : includes(descUpper, incomeKeywords[k])
        THEN "income"
        ELSE "expense"

\* the else branch of the type decision: no C/D suffix on the selected value
typeFromKeywords(description) ==
    LET descUpper == toUpperCase(description)
    IN  IF \E k \in 1..Len(expenseKeywords) : includes(descUpper, expenseKeywords[k])
        THEN "expense"
        ELSE IF \E k \in 1..Len(incomeKeywords) : includes(descUpper, incomeKeywords[k])
        THEN "income"
        ELSE "expense"

-----------------------------------------------------------------------------
(* extractTransactionsFromLines: the scan.  Line indices are 1-based, so   *)
(* the source's line index i is li here, and its  i + 1 < lines.length    *)
(* reads  li < Len(lines).                                                 *)

\* the continuation loop without its stop at a line that starts with a date
RECURSIVE absorbThroughDates(_, _, _, _)
absorbThroughDates(lines, li, combined, src) ==
    IF hasAnyValue(combined) \/ ~(li < Len(lines))
    THEN [combined |-> combined, li |-> li, src |-> src]
    ELSE LET next == trim(lines[li + 1])
         IN  IF next = <<>> THEN absorbThroughDates(lines, li + 1, combined, src)
             ELSE IF shouldSkip(next)
             THEN absorbThroughDates(lines, li + 1, combined, src)
             ELSE LET joined == trim(collapseWhitespace(combined \o <<" ">> \o next))
                  IN  IF Len(joined) > MaxCombinedLength
                      THEN [combined |-> joined, li |-> li + 1,
                            src |-> Append(src, li + 1)]
                      ELSE absorbThroughDates(lines, li + 1, joined,
                                              Append(src, li + 1))

\* The while loop that appends continuation lines to a dated line that has
\* no value yet.  src lists the indices of the lines whose text is in
\* combined (a record of where the text came from, not used by the parser).
RECURSIVE absorbContinuation(_, _, _, _)
absorbContinuation(lines, li, combined, src) ==
    IF hasAnyValue(combined) \/ ~(li < Len(lines))
    THEN [combined |-> combined, li |-> li, src |-> src]
    ELSE LET next == trim(lines[li + 1])
         IN  IF next = <<>> THEN absorbContinuation(lines, li + 1, combined, src)
             ELSE IF datePattern(next) > 0
             THEN [combined |-> combined, li |-> li, src |-> src]
             ELSE IF shouldSkip(next)
             THEN absorbContinuation(lines, li + 1, combined, src)
             ELSE LET joined == trim(collapseWhitespace(combined \o <<" ">> \o next))
                  IN  IF Len(joined) > MaxCombinedLength
                      THEN [combined |-> joined, li |-> li + 1,
                            src |-> Append(src, li + 1)]
                      ELSE absorbContinuation(lines, li + 1, joined,
                                              Append(src, li + 1))

\* the exec loop without its test of the amount: zero values are pushed too
RECURSIVE findValuesAny(_, _)
findValuesAny(combined, lastIndex) ==
    LET match == valuePatternExec(combined, lastIndex)
    IN  IF ~match.ok THEN <<>>
        ELSE <<[value  |-> parseValue(match.numStr),
                suffix |-> toUpperCase(match.suffix),
                index  |-> match.index]>> \o findValuesAny(combined, match.lastIndex)

\* The exec loop: every match of valuePattern in combined whose amount is a
\* finite number above zero, in order.
RECURSIVE findValues(_, _)
findValues(combined, lastIndex) ==
    LET match == valuePatternExec(combined, lastIndex)
    IN  IF ~match.ok THEN <<>>
        ELSE LET value == parseValue(match.numStr)
                 rest  == findValues(combined, match.lastIndex)
             IN  IF value > 0
                 THEN <<[value  |-> value,
                         suffix |-> toUpperCase(match.suffix),
                         index  |-> match.index]>> \o rest
                 ELSE rest

\* values.find(v => v.suffix === 'C' || v.suffix === 'D') || values[0]
selectValue(values) ==
    IF \E k \in 1..Len(values) : values[k].suffix \in {<<"C">>, <<"D">>}
    THEN values[CHOOSE k \in 1..Len(values) :
                    /\ values[k].suffix \in {<<"C">>, <<"D">>}
                    /\ \A j \in 1..(k - 1) : values[j].suffix \notin {<<"C">>, <<"D">>}]
    ELSE values[1]

\* the type decision with the keyword rules consulted before the suffix
resolveTypeKeywordsFirst(selectedValue, description) ==
    IF \E k \in 1..Len(expenseKeywords) :
           includes(toUpperCase(description), expenseKeywords[k])
    THEN "expense"
    ELSE IF \E k \in 1..Len(incomeKeywords) :
                includes(toUpperCase(description), incomeKeywords[k])
    THEN "income"
    ELSE IF selectedValue.suffix = <<"C">> THEN "income" ELSE "expense"

\* The type decision for the selected value
resolveType(selectedValue, description) ==
    IF selectedValue.suffix = <<"D">> THEN "expense"
    ELSE IF selectedValue.suffix = <<"C">> THEN "income"
    ELSE typeFromKeywords(description)

\* The tail of one iteration of the for loop, after the continuation loop:
\* the sequence of transactions pushed by it (empty or one element).
parseCombined(combined, date, isFutureSection) ==
    LET values == findValues(combined, 0)
    IN  IF values = <<>> THEN <<>>
        ELSE LET selectedValue == selectValue(values)
                 description ==
                     trim(collapseWhitespace(
                         trim(substring(combined, Len(date), selectedValue.index))))
             IN  IF Len(description) < MinDescriptionLength THEN <<>>
                 ELSE <<[date        |-> date,
                         description |-> substring(description, 0, 100),
                         value       |-> selectedValue.value,
                         type        |-> resolveType(selectedValue, description),
                         isFuture    |-> isFutureSection,
                         suffix      |-> selectedValue.suffix]>>

\* some line before line li of this page matches a future-section header
HeaderBefore(lines, li) ==
    \E j \in 1..(li - 1) : isFutureSectionHeader(trim(lines[j]))

\* The for loop from index li on.  Each transaction carries, besides the
\* fields of ParsedTransaction, a record of its origin that the parser never
\* reads: suffix (the suffix of the selected value), src (the texts of the
\* lines joined into it), afterHeader (a header line precedes its first
\* line; parsePDF extends it over the earlier pages) and page (filled in by
\* parsePDF).
RECURSIVE scanLines(_, _, _, _)
scanLines(lines, li, isFutureSection, transactions) ==
    IF li > Len(lines) THEN transactions
    ELSE LET trimmed == trim(lines[li])
         IN  IF trimmed = <<>>
             THEN scanLines(lines, li + 1, isFutureSection, transactions)
             ELSE IF isFutureSectionHeader(trimmed)
             THEN scanLines(lines, li + 1, TRUE, transactions)
             ELSE IF shouldSkip(trimmed)
             THEN scanLines(lines, li + 1, isFutureSection, transactions)
             ELSE IF datePattern(trimmed) = 0
             THEN scanLines(lines, li + 1, isFutureSection, transactions)
             ELSE LET a == absorbContinuation(lines, li, trimmed, <<li>>)
                      date == SubSeq(trimmed, 1, datePattern(trimmed))
                      pushed == parseCombined(a.combined, date, isFutureSection)
                      origin == [src |-> [k \in 1..Len(a.src) |-> lines[a.src[k]]],
                                 afterHeader |-> HeaderBefore(lines, li),
                                 page |-> 0]
                  IN  scanLines(lines, a.li + 1, isFutureSection,
                                transactions \o
                                [k \in 1..Len(pushed) |-> pushed[k] @@ origin])

extractTransactionsFromLines(lines) == scanLines(lines, 1, FALSE, <<>>)

-----------------------------------------------------------------------------
(* extractTokens, reconstructLines, extractYearFromLines.                  *)

yTolerance == 6

Null == "null"

\* A text item of a page: [str, transform], transform being the 6-element
\* matrix whose elements [4] and [5] (0-based) are the x and y translation;
\* an item without one has the empty sequence here (Array.isArray fails).
extractTokens(items) ==
    LET token(item) ==
            [str |-> trim(item.str),
             x   |-> IF item.transform = <<>> THEN 0 ELSE item.transform[5],
             y   |-> IF item.transform = <<>> THEN 0 ELSE item.transform[6]]
        kept == SelectSeq(items, LAMBDA item : trim(item.str) # <<>>)
    IN  [k \in 1..Len(kept) |-> token(kept[k])]

\* Array.prototype.sort with a comparator that orders the elements
\* consistently: the sort is stable, so an element's place is the number of
\* elements that compare below it, or equal to it and earlier in the array.
sort(seq, cmp(_, _)) ==
    LET n == Len(seq)
        rank(k) == 1 + Cardinality({j \in 1..n :
                           \/ cmp(seq[j], seq[k]) < 0
                           \/ cmp(seq[j], seq[k]) = 0 /\ j < k})
    IN  [r \in 1..n |-> seq[CHOOSE k \in 1..n : rank(k) = r]]

\* (a, b) => (b.y - a.y) || (a.x - b.x)
byYDescThenX(a, b) == IF b.y - a.y # 0 THEN b.y - a.y ELSE a.x - b.x

\* (a, b) => a.x - b.x
byX(a, b) == a.x - b.x

Abs(n) == IF n < 0 THEN -n ELSE n

\* the grouping with the row's last token as the reference
RECURSIVE groupRowsByLastToken(_, _, _)
groupRowsByLastToken(sorted, k, rows) ==
    IF k > Len(sorted) THEN rows
    ELSE LET t == sorted[k]
         IN  IF rows = <<>> THEN groupRowsByLastToken(sorted, k + 1, <<<<t>>>>)
             ELSE LET lastRow == rows[Len(rows)]
                      rowY == lastRow[Len(lastRow)].y
                  IN  IF Abs(t.y - rowY) <= yTolerance
                      THEN groupRowsByLastToken(sorted, k + 1,
                               [rows EXCEPT ![Len(rows)] = Append(lastRow, t)])
                      ELSE groupRowsByLastToken(sorted, k + 1, Append(rows, <<t>>))

\* the for loop over the sorted tokens, from index k on
RECURSIVE groupRows(_, _, _)
groupRows(sorted, k, rows) ==
    IF k > Len(sorted) THEN rows
    ELSE LET t == sorted[k]
         IN  IF rows = <<>> THEN groupRows(sorted, k + 1, <<<<t>>>>)
             ELSE LET lastRow == rows[Len(rows)]
                      rowY == lastRow[1].y
                  IN  IF Abs(t.y - rowY) <= yTolerance
                      THEN groupRows(sorted, k + 1,
                               [rows EXCEPT ![Len(rows)] = Append(lastRow, t)])
                      ELSE groupRows(sorted, k + 1, Append(rows, <<t>>))

\* reconstructLines up to the join: the rows of tokens, each sorted by x
reconstructRows(tokens) ==
    IF Len(tokens) = 0 THEN <<>>
    ELSE LET sorted == sort(tokens, byYDescThenX)
             rows == groupRows(sorted, 1, <<>>)
         IN  [r \in 1..Len(rows) |-> sort(rows[r], byX)]

reconstructLines(tokens) ==
    LET rows == reconstructRows(tokens)
    IN  [r \in 1..Len(rows) |->
            LET sortedRow == rows[r]
            IN  join([k \in 1..Len(sortedRow) |-> sortedRow[k].str])]

\* /\b(\d{2})\/(\d{2})\/(\d{4})\b/ at position p of the line
FullDateAt(line, p) ==
    /\ IsDDMMAt(line, p)
    /\ BoundaryBefore(line, p)
    /\ p + 9 <= Len(line)
    /\ line[p + 5] = "/"
    /\ \A k \in 6..9 : IsDigit(line[p + k])
    /\ BoundaryAfter(line, p + 9)

\* line.match(...): the 1-based position of the leftmost match, 0 for null
FullDateMatch(line) ==
    IF \E p \in 1..Len(line) : FullDateAt(line, p)
    THEN CHOOSE p \in 1..Len(line) :
             FullDateAt(line, p) /\ \A j \in 1..(p - 1) : ~FullDateAt(line, j)
    ELSE 0

\* the null that extractYearFromLines returns in place of a year
NullYear == -1

RECURSIVE extractYearFrom(_, _)
extractYearFrom(lines, k) ==
    IF k > Len(lines) THEN NullYear
    ELSE LET p == FullDateMatch(lines[k])
         IN  IF p > 0 THEN DigitsToNat(SubSeq(lines[k], p + 6, p + 9))
             ELSE extractYearFrom(lines, k + 1)

extractYearFromLines(lines) == extractYearFrom(lines, 1)

\* a || b for a number-or-null a
OrElse(a, b) == IF a = NullYear \/ a = 0 THEN b ELSE a

-----------------------------------------------------------------------------
(* applyYearToDDMM, deduplicateTransactions, convertPDFToTransactions.     *)
(* The clock reading now (today in the source) is a local calendar day    *)
(* [year, month, day].                                                     *)

Dash == <<"-">>

\* applyYearToDDMM without the DD/MM/YY branch: the row's own year is dropped
applyYearIgnoringYY(dateStr, year, isFuture, now) ==
    LET parts == split(dateStr, "/")
        rolled == /\ isFuture
                  /\ \/ DigitsToNat(parts[2]) < now.month
                     \/ DigitsToNat(parts[2]) = now.month
                        /\ DigitsToNat(parts[1]) < now.day
    IN  NatToString(IF rolled THEN year + 1 ELSE year)
            \o Dash \o padStart(parts[2], 2) \o Dash \o padStart(parts[1], 2)

applyYearToDDMM(dateStr, year, isFuture, now) ==
    LET parts == split(dateStr, "/")
        iso(y, month, day) ==
            NatToString(y) \o Dash \o padStart(month, 2) \o Dash \o padStart(day, 2)
    IN  IF Len(parts) = 3
        THEN iso(2000 + DigitsToNat(parts[3]), parts[2], parts[1])
        ELSE IF Len(parts) # 2
        THEN NatToString(year) \o <<"-","0","1","-","0","1">>
        ELSE LET day == parts[1]
                 month == parts[2]
                 transactionMonth == DigitsToNat(month)
                 transactionDay == DigitsToNat(day)
                 currentMonth == now.month
                 currentDay == now.day
             IN  IF /\ isFuture
                    /\ \/ transactionMonth < currentMonth
                       \/ transactionMonth = currentMonth /\ transactionDay < currentDay
                 THEN iso(year + 1, month, day)
                 ELSE iso(year, month, day)

\* the equality used by findIndex
SameTransaction(s, t) ==
    /\ s.date = t.date
    /\ s.description = t.description
    /\ s.value = t.value
    /\ s.type = t.type

\* self.findIndex(s => ...), 1-based
findIndex(self, t) ==
    CHOOSE k \in 1..Len(self) :
        /\ SameTransaction(self[k], t)
        /\ \A j \in 1..(k - 1) : ~SameTransaction(self[j], t)

RECURSIVE filterFirst(_, _)
filterFirst(self, index) ==
    IF index > Len(self) THEN <<>>
    ELSE IF index = findIndex(self, self[index])
    THEN <<self[index]>> \o filterFirst(self, index + 1)
    ELSE filterFirst(self, index + 1)

\* deduplication that keeps the last transaction of each group
dedupKeepLast(transactions) ==
    LET kept == SelectSeq(
                    [k \in 1..Len(transactions) |->
                        [t |-> transactions[k],
                         last |-> \A j \in (k + 1)..Len(transactions) :
                                      ~SameTransaction(transactions[j], transactions[k])]],
                    LAMBDA e : e.last)
    IN  [k \in 1..Len(kept) |-> kept[k].t]

\* deduplication that hands the survivors back in reverse order
dedupReversed(transactions) ==
    LET kept == filterFirst(transactions, 1)
    IN  [k \in 1..Len(kept) |-> kept[Len(kept) + 1 - k]]

deduplicateTransactions(transactions) == filterFirst(transactions, 1)

\* the tail of parsePDF: year completion, then deduplication
completeYears(all, year, now) ==
    [k \in 1..Len(all) |->
        [all[k] EXCEPT
            !.date = applyYearToDDMM(@, year,
                                     all[k].isFuture, now)]]

IsLeapYear(y) == (y % 4 = 0 /\ y % 100 # 0) \/ y % 400 = 0

DaysInMonth(y, m) ==
    IF m = 2 THEN (IF IsLeapYear(y) THEN 29 ELSE 28)
    ELSE IF m \in {4, 6, 9, 11} THEN 30 ELSE 31

RECURSIVE DaysBeforeMonth(_, _)
DaysBeforeMonth(y, m) ==
    IF m <= 1 THEN 0 ELSE DaysBeforeMonth(y, m - 1) + DaysInMonth(y, m - 1)

\* days from 0001-01-01 to the given day; a day number past the end of the
\* month runs on into the next month
DayNumber(y, m, d) ==
    365 * (y - 1) + ((y - 1) \div 4) - ((y - 1) \div 100) + ((y - 1) \div 400)
        + DaysBeforeMonth(y, m) + d

\* the time value of an Invalid Date (every comparison with it is false)
NaN == -1

\* new Date(s).getTime() for s of the form YYYY-MM-DD, in hours: a date-only
\* ISO string denotes midnight UTC.  A day of 29..31 that the month does not
\* have is rejected by some engines and carried into the next month by
\* others (lenientDay).
parseDateOnly(s, lenientDay) ==
    IF ~( /\ Len(s) = 10
          /\ \A k \in {1, 2, 3, 4, 6, 7, 9, 10} : IsDigit(s[k])
          /\ s[5] = "-" /\ s[8] = "-" )
    THEN NaN
    ELSE LET y == DigitsToNat(SubSeq(s, 1, 4))
             m == DigitsToNat(SubSeq(s, 6, 7))
             d == DigitsToNat(SubSeq(s, 9, 10))
         IN  IF m \notin 1..12 \/ d \notin 1..31 THEN NaN
             ELSE IF d > DaysInMonth(y, m) /\ ~lenientDay THEN NaN
             ELSE 24 * DayNumber(y, m, d)

\* today.setHours(0, 0, 0, 0): local midnight, in hours UTC; offset is the
\* zone's offset east of UTC in hours
localMidnight(now, offset) ==
    24 * DayNumber(now.year, now.month, now.day) - offset

\* an absent dueDate (no string is equal to it)
Undefined == <<"undefined">>

convertRow(row, now, offset, lenientDay) ==
    LET transactionDate == parseDateOnly(row.date, lenientDay)
        isDateInFuture ==
            transactionDate # NaN /\ transactionDate > localMidnight(now, offset)
        isPending == row.isFuture \/ isDateInFuture
    IN  [date          |-> row.date,
         description   |-> row.description,
         category      |-> Null,
         value         |-> row.value,
         type          |-> row.type,
         status        |-> IF isPending THEN "pending" ELSE "completed",
         dueDate       |-> IF isPending THEN row.date ELSE Undefined,
         paymentMethod |-> Null,
         isImported    |-> TRUE,
         isReconciled  |-> ~isPending]

convertPDFToTransactions(parsed, now, offset, lenientDay) ==
    [k \in 1..Len(parsed) |-> convertRow(parsed[k], now, offset, lenientDay)]

-----------------------------------------------------------------------------
(* parseCSV and convertToTransactions (lib/csvParser.ts).  A number that   *)
(* parseFloat returns is kept exactly, as its sign, its integer part and   *)
(* the digits after the point without the trailing zeros.                  *)

LowerChar(c) ==
    IF \E k \in 1..Len(Upper) : Upper[k] = c
    THEN Lower[CHOOSE k \in 1..Len(Upper) : Upper[k] = c]
    ELSE c

toLowerCase(s) == [k \in 1..Len(s) |-> LowerChar(s[k])]

\* line.split(/[,;]/)
RECURSIVE splitFields(_)
splitFields(s) ==
    IF \A k \in 1..Len(s) : s[k] \notin {",", ";"} THEN <<s>>
    ELSE LET p == CHOOSE k \in 1..Len(s) :
                      s[k] \in {",", ";"} /\ \A j \in 1..(k - 1) : s[j] \notin {",", ";"}
         IN  <<SubSeq(s, 1, p - 1)>> \o splitFields(SubSeq(s, p + 1, Len(s)))

\* p.replace(/^"|"$/g, '')
stripQuotes(s) ==
    LET a == IF Len(s) >= 1 /\ s[1] = "\"" THEN 2 ELSE 1
        b == IF Len(s) >= a /\ s[Len(s)] = "\"" THEN Len(s) - 1 ELSE Len(s)
    IN  SubSeq(s, a, b)

\* s.replace(',', '.'): the first comma only
replaceFirstComma(s) ==
    IF \A k \in 1..Len(s) : s[k] # "," THEN s
    ELSE LET p == CHOOSE k \in 1..Len(s) : s[k] = "," /\ \A j \in 1..(k - 1) : s[j] # ","
         IN  [s EXCEPT ![p] = "."]

\* the digits after the point without the trailing zeros
RECURSIVE stripTrailingZeros(_)
stripTrailingZeros(digits) ==
    IF digits # <<>> /\ digits[Len(digits)] = "0"
    THEN stripTrailingZeros(SubSeq(digits, 1, Len(digits) - 1))
    ELSE digits

\* the longest run of digits of s from position p on
RECURSIVE digitsFrom(_, _)
digitsFrom(s, p) ==
    IF p <= Len(s) /\ IsDigit(s[p]) THEN <<s[p]>> \o digitsFrom(s, p + 1) ELSE <<>>

NotANumber == [nan |-> TRUE, neg |-> FALSE, int |-> 0, frac |-> <<>>]

\* parseFloat(s) for s without leading white space and without an exponent:
\* an optional sign, digits, an optional point and digits; what follows is
\* ignored, and a string with no digit there gives NaN.
parseFloat(s) ==
    LET signed == Len(s) >= 1 /\ s[1] \in {"-", "+"}
        p == IF signed THEN 2 ELSE 1
        intDigits == digitsFrom(s, p)
        q == p + Len(intDigits)
        fracDigits == IF q <= Len(s) /\ s[q] = "." THEN digitsFrom(s, q + 1) ELSE <<>>
    IN  IF intDigits = <<>> /\ fracDigits = <<>> THEN NotANumber
        ELSE [nan  |-> FALSE,
              neg  |-> signed /\ s[1] = "-",
              int  |-> DigitsToNat(intDigits),
              frac |-> stripTrailingZeros(fracDigits)]

\* Math.abs of such a number
mathAbs(n) == [n EXCEPT !.neg = FALSE]

\* !isNaN(value) && value > 0
isPositive(n) == ~n.nan /\ ~n.neg /\ (n.int > 0 \/ n.frac # <<>>)

\* `${year}` of the missing third part of a date
UndefinedText == <<"u", "n", "d", "e", "f", "i", "n", "e", "d">>

\* The body of the loop over dataLines: the rows pushed for one line (none
\* or one).  Besides the fields of ParsedRow a row carries src, the line it
\* was parsed from, which the parser never reads.
parseLine(line) ==
    IF trim(line) = <<>> THEN <<>>
    ELSE LET split0 == splitFields(line)
             parts == [k \in 1..Len(split0) |-> stripQuotes(trim(split0[k]))]
         IN  IF Len(parts) < 3 THEN <<>>
             ELSE LET dateStr == parts[1]
                      description == parts[2]
                      valueStr == replaceFirstComma(
                                      SelectSeq(parts[3],
                                          LAMBDA c : c \notin {"R", "$"} /\ ~IsSpace(c)))
                      value == mathAbs(parseFloat(valueStr))
                      isNegative == \/ includes(parts[3], <<"-">>)
                                    \/ (Len(valueStr) >= 1 /\ valueStr[1] = "-")
                      dmy == split(dateStr, "/")
                      parsedDate ==
                          IF includes(dateStr, <<"/">>)
                          THEN (IF Len(dmy) >= 3 THEN dmy[3] ELSE UndefinedText)
                                   \o Dash \o padStart(dmy[2], 2)
                                   \o Dash \o padStart(dmy[1], 2)
                          ELSE dateStr
                  IN  IF isPositive(value)
                      THEN <<[date        |-> parsedDate,
                              description |-> description,
                              value       |-> value,
                              type        |-> IF isNegative THEN "expense" ELSE "income",
                              src         |-> line]>>
                      ELSE <<>>

RECURSIVE parseLines(_, _)
parseLines(dataLines, k) ==
    IF k > Len(dataLines) THEN <<>>
    ELSE parseLine(dataLines[k]) \o parseLines(dataLines, k + 1)

\* header.includes('data') || header.includes('date') || header.includes('valor')
hasHeaderWord(header) ==
    \/ includes(header, <<"d", "a", "t", "a">>)
    \/ includes(header, <<"d", "a", "t", "e">>)
    \/ includes(header, <<"v", "a", "l", "o", "r">>)

\* the smallest number of lines parseCSV reads anything from
MinCsvLines == 2

parseCSV(content) ==
    LET lines == split(trim(content), "\n")
    IN  IF Len(lines) < MinCsvLines THEN <<>>
        ELSE LET header == toLowerCase(lines[1])
                 hasHeader == hasHeaderWord(header)
                 dataLines == IF hasHeader THEN Tail(lines) ELSE lines
             IN  parseLines(dataLines, 1)

convertToTransactions(parsed) ==
    [k \in 1..Len(parsed) |->
        [date          |-> parsed[k].date,
         description   |-> parsed[k].description,
         category      |-> Null,
         value         |-> parsed[k].value,
         type          |-> parsed[k].type,
         paymentMethod |-> Null,
         isImported    |-> TRUE,
         isReconciled  |-> TRUE]]

-----------------------------------------------------------------------------
(* The statements fed to the parser: every page is a column of rows taken  *)
(* from a catalogue of statement rows, each row a sequence of text items   *)
(* (one per word), laid out on the page with the small vertical jitter     *)
(* that PDF text layers show within one visual row.                        *)

MaxPages == 2

MaxRows == 2

\* "AGENDADOS": a future-section header
RowFutureHeader ==
    << <<"A","G","E","N","D","A","D","O","S">> >>

\* "AGENDADOS 01/12/2025": a future-section header that also states the period
RowFutureHeaderPeriod ==
    << <<"A","G","E","N","D","A","D","O","S">>,
       <<"0","1","/","1","2","/","2","0","2","5">> >>

\* "DE 01/12/2025": a period line with a DD/MM/YYYY date
RowPeriod ==
    << <<"D","E">>,
       <<"0","1","/","1","2","/","2","0","2","5">> >>

\* "14/11 TARIFA 5,00C": credit suffix on a description with an expense keyword
RowCreditTarifa ==
    << <<"1","4","/","1","1">>,
       <<"T","A","R","I","F","A">>,
       <<"5",",","0","0","C">> >>

\* "10/01 PIX REC 5,00D": debit suffix on a description with an income keyword
RowDebitPixRec ==
    << <<"1","0","/","0","1">>,
       <<"P","I","X">>,
       <<"R","E","C">>,
       <<"5",",","0","0","D">> >>

\* "10/01/26 PIX REC 5,00D": the same row with its own two-digit year
RowDebitPixRecYY ==
    << <<"1","0","/","0","1","/","2","6">>,
       <<"P","I","X">>,
       <<"R","E","C">>,
       <<"5",",","0","0","D">> >>

\* "SALDO DO DIA 1.200,00": a running-balance line without a date
RowSaldo ==
    << <<"S","A","L","D","O">>,
       <<"D","O">>,
       <<"D","I","A">>,
       <<"1",".","2","0","0",",","0","0">> >>

\* "10/01 LIMITE 5,00D": a dated line with a skip keyword
RowLimite ==
    << <<"1","0","/","0","1">>,
       <<"L","I","M","I","T","E">>,
       <<"5",",","0","0","D">> >>

\* "12/01 PIX": a dated line whose value is on a later line
RowNoValue ==
    << <<"1","2","/","0","1">>,
       <<"P","I","X">> >>

\* "31/02 DOC 5,00": a date the calendar does not have, no suffix
RowDay31Feb ==
    << <<"3","1","/","0","2">>,
       <<"D","O","C">>,
       <<"5",",","0","0">> >>

RowCatalogue ==
    { RowFutureHeader,
      RowFutureHeaderPeriod,
      RowPeriod,
      RowCreditTarifa,
      RowDebitPixRec,
      RowDebitPixRecYY,
      RowSaldo,
      RowLimite,
      RowNoValue,
      RowDay31Feb }

\* the text items of the row placed as row r of a page, left to right
ItemsOfRow(row, r) ==
    [k \in 1..Len(row) |->
        [str |-> row[k],
         transform |-> <<1, 0, 0, 1, 30 * k,
                         800 - 14 * r + (IF k % 2 = 0 THEN 3 ELSE 0)>>]]

RECURSIVE ItemsOfRows(_, _)
ItemsOfRows(rows, r) ==
    IF r > Len(rows) THEN <<>>
    ELSE ItemsOfRow(rows[r], r) \o ItemsOfRows(rows, r + 1)

RECURSIVE RowColumns(_)
RowColumns(n) ==
    IF n = 0 THEN {<<>>}
    ELSE LET shorter == RowColumns(n - 1)
         IN  shorter \cup {Append(c, row) : c \in {q \in shorter : Len(q) = n - 1},
                                            row \in RowCatalogue}

\* the pages a statement can have: textContent.items of each
Pages == {ItemsOfRows(rows, 1) : rows \in RowColumns(MaxRows)}

\* the processing days and time zones (hours east of UTC) of the run
Todays ==
    { [year |-> 2025, month |-> 11, day |-> 14],
      [year |-> 2026, month |-> 1, day |-> 11] }

UtcOffsets == {-3, 9}

-----------------------------------------------------------------------------
(* The arguments of the single calls: the contents of CSV files, the       *)
(* tokens of a page, and the reconstructed lines of a page.                *)

MaxCsvLines == 2

MaxTokens == 3

MaxLines == 3

\* "15/03/2024;Venda produto;150,00"
CsvVenda == <<"1", "5", "/", "0", "3", "/", "2", "0", "2", "4", ";", "V", "e", "n", "d", "a", " ", "p", "r", "o", "d", "u", "t", "o", ";", "1", "5", "0", ",", "0", "0">>

\* "Data;Descricao;Valor": a header row
CsvHeader == <<"D", "a", "t", "a", ";", "D", "e", "s", "c", "r", "i", "c", "a", "o", ";", "V", "a", "l", "o", "r">>

\* "16/03/2024;Compra;-20,50": a negative value with a decimal comma
CsvCompra == <<"1", "6", "/", "0", "3", "/", "2", "0", "2", "4", ";", "C", "o", "m", "p", "r", "a", ";", "-", "2", "0", ",", "5", "0">>

\* "2024-03-17,Aluguel,30.25": comma-delimited, ISO date, decimal point
CsvAluguel == <<"2", "0", "2", "4", "-", "0", "3", "-", "1", "7", ",", "A", "l", "u", "g", "u", "e", "l", ",", "3", "0", ".", "2", "5">>

\* "18/03/2024;\"Taxa\";R$ 4-": quoted description, currency sign, trailing minus
CsvTaxa == <<"1", "8", "/", "0", "3", "/", "2", "0", "2", "4", ";", "\"", "T", "a", "x", "a", "\"", ";", "R", "$", " ", "4", "-">>

\* "20/03/2024;Zero;0": a value that is not positive
CsvZero == <<"2", "0", "/", "0", "3", "/", "2", "0", "2", "4", ";", "Z", "e", "r", "o", ";", "0">>

\* "21/03/2024;Dois": two fields only
CsvTwoFields == <<"2", "1", "/", "0", "3", "/", "2", "0", "2", "4", ";", "D", "o", "i", "s">>

\* "22/03/2024;Lote;1.234,56": thousands separator and decimal comma
CsvLote == <<"2", "2", "/", "0", "3", "/", "2", "0", "2", "4", ";", "L", "o", "t", "e", ";", "1", ".", "2", "3", "4", ",", "5", "6">>

CsvLineCatalogue ==
    {CsvVenda, CsvHeader, CsvCompra, CsvAluguel, CsvTaxa, CsvZero, CsvTwoFields,
     CsvLote}

\* the sequences of at most n elements of the set S
RECURSIVE SeqsUpTo(_, _)
SeqsUpTo(S, n) ==
    IF n = 0 THEN {<<>>}
    ELSE LET shorter == SeqsUpTo(S, n - 1)
         IN  shorter \cup {Append(q, e) : q \in {c \in shorter : Len(c) = n - 1},
                                          e \in S}

\* lines.join('\n'): the text of a file with the given lines
RECURSIVE joinLines(_)
joinLines(lines) ==
    IF lines = <<>> THEN <<>>
    ELSE IF Len(lines) = 1 THEN lines[1]
    ELSE lines[1] \o <<"\n">> \o joinLines(Tail(lines))

CsvContents == {joinLines(lines) : lines \in SeqsUpTo(CsvLineCatalogue, MaxCsvLines)}

\* the tokens of a page: rows whose y are 5, 2, 6 and 7 apart, two tokens at
\* the same place, one to their right
TokenCatalogue ==
    {[str |-> <<st>>, x |-> tx, y |-> ty] :
        st \in {"a", "b"}, tx \in {10, 40}, ty \in {0, 6, 8, 13}}
    \ {[str |-> <<"b">>, x |-> 40, y |-> ty] : ty \in {0, 6, 8, 13}}

TokenLists == SeqsUpTo(TokenCatalogue, MaxTokens)

\* "13/01 PIX 0,00": a dated line whose only value is zero
LineZeroValue == <<"1", "3", "/", "0", "1", " ", "P", "I", "X", " ", "0", ",", "0", "0">>

\* "13/01 X 5,00": a dated line with a one-character description
LineShortDescription == <<"1", "3", "/", "0", "1", " ", "X", " ", "5", ",", "0", "0">>

\* "15/01 PIX 7,00 5,00D 9,00C": a plain value, then a debit, then a credit
LineThreeValues == <<"1", "5", "/", "0", "1", " ", "P", "I", "X", " ", "7", ",", "0", "0", " ", "5", ",", "0", "0", "D", " ", "9", ",", "0", "0", "C">>

\* "16/01 PIX 7,00 9,00": two values without a suffix
LineTwoPlainValues == <<"1", "6", "/", "0", "1", " ", "P", "I", "X", " ", "7", ",", "0", "0", " ", "9", ",", "0", "0">>

\* "17/01 PIX 0,00D 5,00": a zero debit before a plain value
LineZeroDebitFirst == <<"1", "7", "/", "0", "1", " ", "P", "I", "X", " ", "0", ",", "0", "0", "D", " ", "5", ",", "0", "0">>

\* "7,00 9,00C": a continuation line with two values
LineValuesOnly == <<"7", ",", "0", "0", " ", "9", ",", "0", "0", "C">>

\* "18/01 DEP 5,00": no suffix, an income keyword only
LineIncomeWord == <<"1", "8", "/", "0", "1", " ", "D", "E", "P", " ", "5", ",", "0", "0">>

\* "19/01 REC TED 5,00": no suffix, an income keyword and an expense keyword
LineBothWords == <<"1", "9", "/", "0", "1", " ", "R", "E", "C", " ", "T", "E", "D", " ", "5", ",", "0", "0">>

\* "20/01 PIX 5,00 COMPRA": no suffix, a word after the value
LineWordAfterValue == <<"2", "0", "/", "0", "1", " ", "P", "I", "X", " ", "5", ",", "0", "0", " ", "C", "O", "M", "P", "R", "A">>

\* "21/01 TED 1234,56": an amount above 999 written without a thousands separator
LineFourDigits == <<"2", "1", "/", "0", "1", " ", "T", "E", "D", " ", "1", "2", "3", "4", ",", "5", "6">>

\* "22/01 PIX 1.234,56D": the same amount with its thousands separator
LineThousands == <<"2", "2", "/", "0", "1", " ", "P", "I", "X", " ", "1", ".", "2", "3", "4", ",", "5", "6", "D">>

\* an undated line without a value that takes a row past MaxCombinedLength
LineLong == [k \in 1..MaxCombinedLength |-> "X"]

LineCatalogue ==
    { join(RowNoValue),
      join(RowFutureHeader),
      join(RowCreditTarifa),
      LineZeroValue,
      LineShortDescription,
      LineThreeValues,
      LineTwoPlainValues,
      LineZeroDebitFirst,
      LineValuesOnly,
      LineIncomeWord,
      LineBothWords,
      LineWordAfterValue,
      LineFourDigits,
      LineThousands,
      join(RowSaldo) }

\* the pages of lines: every page of catalogue lines, and the page where the
\* long line stands between a dated line without a value and a line of values
LineLists ==
    SeqsUpTo(LineCatalogue, MaxLines)
        \cup {<<join(RowNoValue), LineLong, LineValuesOnly>>}

-----------------------------------------------------------------------------
(* parsePDF followed by convertPDFToTransactions, as the import dialog     *)
(* calls them.                                                             *)

vars == <<pc, today, utcOffset, numPages, i, statementYear, allTransactions,
          withYear, unique, converted, headerSeen, skipLineSeen, firstFullDate,
          preview, error, previewBefore, failedPage, call,
          frame, hook, requests, switches>>

\* selectedAccount === null
NoAccount == "none"

\* useState(new Map()): the category map before any categories were loaded
EmptyMap == "empty"

\* The hook after its first render with no account selected: the first
\* effect has run its else branch (setTransactions([]), setIsLoaded(true)),
\* the second has found no account.  The rows of an account are modelled by
\* the set of the accounts they belong to, a category map by its account.
Mounted ==
    [selectedAccount |-> NoAccount,
     transactions    |-> {},
     categoryMap     |-> EmptyMap,
     isLoaded        |-> TRUE]

\* the locals of an extractor before its loop; as history, never read by
\* the extractor: top, the index at which the current iteration of the outer
\* loop began; starts, the indices at which a candidate began; outer and
\* inner, the number of iterations of the outer and of the inner loop so far
EmptyFrame ==
    [dateDDMM        |-> <<>>,
     descParts       |-> <<>>,
     valueToken      |-> <<>>,
     dateMatch       |-> <<>>,
     combined        |-> <<>>,
     isFutureSection |-> FALSE,
     top             |-> 0,
     starts          |-> <<>>,
     outer           |-> 0,
     inner           |-> 0]

\* firstFullDate while the statement has shown no DD/MM/YYYY
NoFullDate == [page |-> 0, year |-> 0]

\* failedPage while nothing has failed
NoFailure == -1

\* call while no single function call is being followed
NoCall == [fn |-> "none", arg |-> <<>>, res |-> <<>>]

\* a transaction left in the preview list by an earlier import
EarlierTransaction ==
    [date          |-> <<"2", "0", "2", "4", "-", "0", "1", "-", "0", "2">>,
     description   |-> <<"A", "L", "U", "G", "U", "E", "L">>,
     category      |-> Null,
     value         |-> 90000,
     type          |-> "expense",
     status        |-> "completed",
     dueDate       |-> Undefined,
     paymentMethod |-> Null,
     isImported    |-> TRUE,
     isReconciled  |-> TRUE]

\* the preview list when handleFile is called: useState([]), or what an
\* earlier file left there
PreviousPreviews == {<<>>, <<EarlierTransaction>>}

\* the messages of setError in the PDF branch and in the catch block
ErrNoTransactions == "Não foi possível extrair transações do PDF. Tente um formato CSV."

ErrProcessing == "Erro ao processar arquivo. Tente novamente."

Init ==
    /\ pc = "start"
    /\ frame = EmptyFrame
    /\ hook = Mounted
    /\ requests = {}
    /\ switches = 0
    /\ today \in Todays
    /\ utcOffset \in UtcOffsets
    /\ numPages = 0
    /\ i = 0
    /\ statementYear = 0
    /\ allTransactions = <<>>
    /\ withYear = <<>>
    /\ unique = <<>>
    /\ converted = <<>>
    /\ headerSeen = FALSE
    /\ skipLineSeen = FALSE
    /\ firstFullDate = NoFullDate
    /\ preview \in PreviousPreviews
    /\ previewBefore = preview
    /\ error = ""
    /\ failedPage = NoFailure
    /\ call = NoCall

\* handleFile is called with a .pdf file (setError('')) and calls parsePDF;
\* getDocument resolves: the locals of parsePDF are initialised
Open ==
    /\ UNCHANGED <<frame, hook, requests, switches>>
    /\ pc = "start"
    /\ \E n \in 1..MaxPages : numPages' = n
    /\ i' = 1
    /\ statementYear' = today.year
    /\ allTransactions' = <<>>
    /\ error' = ""
    /\ pc' = "pages"
    /\ UNCHANGED <<today, utcOffset, withYear, unique, converted, headerSeen,
                   skipLineSeen, firstFullDate, preview, previewBefore,
                   failedPage, call>>

\* a catch block that would hand the candidates extracted so far to the caller
returnExtracted(all) == [threw |-> FALSE, value |-> all]

\* catch (error) { console.error(...); throw error; }: parsePDF rejects, and
\* none of the candidates in all reaches the caller
rethrow(all) == [threw |-> TRUE, value |-> <<>>]

\* file.arrayBuffer() or getDocument rejects
OpenFails ==
    /\ UNCHANGED <<frame, hook, requests, switches>>
    /\ pc = "start"
    /\ error' = ""
    /\ failedPage' = 0
    /\ LET caught == rethrow(<<>>)
       IN  /\ pc' = IF caught.threw THEN "rejected" ELSE "returned"
           /\ unique' = caught.value
    /\ UNCHANGED <<today, utcOffset, numPages, i, statementYear, allTransactions,
                   withYear, converted, headerSeen, skipLineSeen, firstFullDate,
                   preview, previewBefore, call>>

\* the line contains SALDO, BLOQ or LIMITE, in any case
HasBalanceWord(line) ==
    \E k \in 1..3 : includes(toUpperCase(line), skipKeywords[k])

\* the year taken from whichever page shows one
resolveYearAnyPage(page, found, year) == OrElse(found, year)

\* "Try to extract year from header on first page":
\* statementYear = extractYearFromLines(lines) || statementYear, found being
\* what extractYearFromLines returned
resolveYear(page, found, year) ==
    IF page = 1 THEN OrElse(found, year) ELSE year

\* What one iteration of the page loop computes from textContent.items:
\* the page's transactions and the year found in its lines; hasHeader and
\* hasSkipLine tell whether one of its lines matches a future-section header,
\* or contains SALDO, BLOQ or LIMITE.
readPage(items) ==
    LET tokens == extractTokens(items)
        lines  == reconstructLines(tokens)
    IN  [pageTx      |-> extractTransactionsFromLines(lines),
         year        |-> extractYearFromLines(lines),
         hasHeader   |-> HeaderBefore(lines, Len(lines) + 1),
         hasSkipLine |-> \E k \in 1..Len(lines) : HasBalanceWord(lines[k])]

\* readPage of every page a statement can have
PageReads == {readPage(items) : items \in Pages}

\* items pushed in front of the array
unshift(all, pageTx) == pageTx \o all

\* allTransactions.push(...pageTx)
push(all, pageTx) == all \o pageTx

\* One iteration of the page loop: getPage(i) and getTextContent resolve with
\* the page's items, and the body runs to the push onto allTransactions.
GetPage ==
    /\ UNCHANGED <<frame, hook, requests, switches>>
    /\ pc = "pages"
    /\ i <= numPages
    /\ \E page \in PageReads :
          /\ statementYear' = resolveYear(i, page.year, statementYear)
          /\ allTransactions' = push(allTransactions,
                 [k \in 1..Len(page.pageTx) |->
                     [page.pageTx[k] EXCEPT !.afterHeader = @ \/ headerSeen,
                                            !.page = i]])
          /\ headerSeen' = (headerSeen \/ page.hasHeader)
          /\ skipLineSeen' = (skipLineSeen \/ page.hasSkipLine)
          /\ firstFullDate' =
                 IF firstFullDate = NoFullDate /\ page.year # NullYear
                 THEN [page |-> i, year |-> page.year]
                 ELSE firstFullDate
    /\ i' = i + 1
    /\ UNCHANGED <<pc, today, utcOffset, numPages, withYear, unique, converted,
                   preview, error, previewBefore, failedPage, call>>

\* getPage(i) or getTextContent rejects: the loop is left through the catch
\* block
GetPageFails ==
    /\ UNCHANGED <<frame, hook, requests, switches>>
    /\ pc = "pages"
    /\ i <= numPages
    /\ failedPage' = i
    /\ LET caught == rethrow(allTransactions)
       IN  /\ pc' = IF caught.threw THEN "rejected" ELSE "returned"
           /\ unique' = caught.value
    /\ UNCHANGED <<today, utcOffset, numPages, i, statementYear, allTransactions,
                   withYear, converted, headerSeen, skipLineSeen, firstFullDate,
                   preview, error, previewBefore, call>>

\* deduplication of the raw dates, year completion afterwards
dedupThenYear(all, year, now) ==
    completeYears(deduplicateTransactions(all), year, now)

\* "Apply year and deduplicate": what parsePDF returns
yearThenDedup(all, year, now) ==
    deduplicateTransactions(completeYears(all, year, now))

\* The loop has ended: year completion, deduplication, return.
Finish ==
    /\ UNCHANGED <<frame, hook, requests, switches>>
    /\ pc = "pages"
    /\ i > numPages
    /\ withYear' = completeYears(allTransactions, statementYear, today)
    /\ unique' = yearThenDedup(allTransactions, statementYear, today)
    /\ pc' = "returned"
    /\ UNCHANGED <<today, utcOffset, numPages, i, statementYear, allTransactions,
                   converted, headerSeen, skipLineSeen, firstFullDate,
                   preview, error, previewBefore, failedPage, call>>

\* handleFile after parsePDF resolved: an empty list is reported and the
\* preview is left alone, anything else is converted and previewed.
Convert ==
    /\ UNCHANGED <<frame, hook, requests, switches>>
    /\ pc = "returned"
    /\ IF Len(unique) = 0
       THEN /\ error' = ErrNoTransactions
            /\ UNCHANGED <<converted, preview>>
       ELSE /\ \E lenientDay \in BOOLEAN :
                  converted' = convertPDFToTransactions(unique, today, utcOffset,
                                                        lenientDay)
            /\ preview' = converted'
            /\ error' = error
    /\ pc' = "converted"
    /\ UNCHANGED <<today, utcOffset, numPages, i, statementYear, allTransactions,
                   withYear, unique, headerSeen, skipLineSeen, firstFullDate,
                   previewBefore, failedPage, call>>

\* handleFile's catch block, after parsePDF rejected
HandleError ==
    /\ UNCHANGED <<frame, hook, requests, switches>>
    /\ pc = "rejected"
    /\ error' = ErrProcessing
    /\ pc' = "failed"
    /\ UNCHANGED <<today, utcOffset, numPages, i, statementYear, allTransactions,
                   withYear, unique, converted, headerSeen, skipLineSeen,
                   firstFullDate, preview, previewBefore, failedPage, call>>

Next ==
    \/ Open
    \/ OpenFails
    \/ GetPage
    \/ GetPageFails
    \/ Finish
    \/ Convert
    \/ HandleError

Spec == Init /\ [][Next]_vars

-----------------------------------------------------------------------------
(* Single calls: handleFile with a .csv file, reconstructLines with the    *)
(* tokens of a page, extractTransactionsFromLines with its lines.          *)

CallInit ==
    /\ pc = "called"
    /\ frame = EmptyFrame
    /\ hook = Mounted
    /\ requests = {}
    /\ switches = 0
    /\ today = [year |-> 2025, month |-> 11, day |-> 14]
    /\ utcOffset = -3
    /\ numPages = 0
    /\ i = 0
    /\ statementYear = 0
    /\ allTransactions = <<>>
    /\ withYear = <<>>
    /\ unique = <<>>
    /\ converted = <<>>
    /\ headerSeen = FALSE
    /\ skipLineSeen = FALSE
    /\ firstFullDate = NoFullDate
    /\ preview = <<>>
    /\ previewBefore = <<>>
    /\ error = ""
    /\ failedPage = NoFailure
    /\ \/ \E content \in CsvContents :
             call = [fn |-> "handleFile", arg |-> content, res |-> <<>>]
       \/ \E tokens \in TokenLists :
             call = [fn |-> "reconstructLines", arg |-> tokens, res |-> <<>>]
       \/ \E lines \in LineLists :
             call = [fn |-> "extractTransactionsFromLines", arg |-> lines,
                     res |-> <<>>]

\* the message of setError in the CSV branch
ErrNoRows == "Não foi possível ler o arquivo. Verifique o formato."

\* handleFile with a .csv file whose text is call.arg
HandleCsvFile ==
    /\ UNCHANGED <<frame, hook, requests, switches>>
    /\ pc = "called"
    /\ call.fn = "handleFile"
    /\ LET parsed == parseCSV(call.arg)
           transactions == convertToTransactions(parsed)
       IN  /\ call' = [call EXCEPT !.res = <<[parsed |-> parsed,
                                              transactions |-> transactions]>>]
           /\ IF Len(parsed) = 0
              THEN error' = ErrNoRows /\ preview' = preview
              ELSE error' = "" /\ preview' = transactions
    /\ pc' = "done"
    /\ UNCHANGED <<today, utcOffset, numPages, i, statementYear, allTransactions,
                   withYear, unique, converted, headerSeen, skipLineSeen,
                   firstFullDate, previewBefore, failedPage>>

CallReconstructLines ==
    /\ UNCHANGED <<frame, hook, requests, switches>>
    /\ pc = "called"
    /\ call.fn = "reconstructLines"
    /\ call' = [call EXCEPT !.res = <<[rows  |-> reconstructRows(call.arg),
                                       lines |-> reconstructLines(call.arg)]>>]
    /\ pc' = "done"
    /\ UNCHANGED <<today, utcOffset, numPages, i, statementYear, allTransactions,
                   withYear, unique, converted, headerSeen, skipLineSeen,
                   firstFullDate, preview, error, previewBefore, failedPage>>

CallExtractTransactionsFromLines ==
    /\ UNCHANGED <<frame, hook, requests, switches>>
    /\ pc = "called"
    /\ call.fn = "extractTransactionsFromLines"
    /\ call' = [call EXCEPT !.res = <<extractTransactionsFromLines(call.arg)>>]
    /\ pc' = "done"
    /\ UNCHANGED <<today, utcOffset, numPages, i, statementYear, allTransactions,
                   withYear, unique, converted, headerSeen, skipLineSeen,
                   firstFullDate, preview, error, previewBefore, failedPage>>

CallNext ==
    \/ HandleCsvFile
    \/ CallReconstructLines
    \/ CallExtractTransactionsFromLines

CallSpec == CallInit /\ [][CallNext]_vars

-----------------------------------------------------------------------------
(* useTransactions under AccountProvider: the selection of an account, the *)
(* two effects of the hook and the supabase queries they start.  A query   *)
(* resolves at any later time, in any order with the other queries and     *)
(* with the selections; queries of the same table for the same account     *)
(* have the same effect when they resolve and are kept as one.             *)

MaxSwitches == 3

Accounts == {"acc1", "acc2"}

\* the variables of the import, which the hook and the extractor loops leave
\* alone
importVars ==
    <<today, utcOffset, numPages, statementYear, allTransactions, withYear,
      unique, converted, headerSeen, skipLineSeen, firstFullDate, preview,
      error, previewBefore, failedPage>>

\* .from('transactions').select('*').eq('account_id', account): the rows of
\* the account
rowsOf(account) == {account}

AccountInit ==
    /\ pc = "mounted"
    /\ frame = EmptyFrame
    /\ hook = Mounted
    /\ requests = {}
    /\ switches = 0
    /\ today = [year |-> 2025, month |-> 11, day |-> 14]
    /\ utcOffset = -3
    /\ numPages = 0
    /\ i = 0
    /\ statementYear = 0
    /\ allTransactions = <<>>
    /\ withYear = <<>>
    /\ unique = <<>>
    /\ converted = <<>>
    /\ headerSeen = FALSE
    /\ skipLineSeen = FALSE
    /\ firstFullDate = NoFullDate
    /\ preview = <<>>
    /\ previewBefore = <<>>
    /\ error = ""
    /\ failedPage = NoFailure
    /\ call = NoCall

\* setSelectedAccount(account) with another account than the selected one,
\* the render that follows and the first effect, whose dependency
\* selectedAccount?.id has changed: with an account, loadData sets isLoaded
\* to false and fetchCategories starts its query; with none, the else branch.
SetSelectedAccount ==
    /\ pc = "mounted"
    /\ switches < MaxSwitches
    /\ \E account \in (Accounts \cup {NoAccount}) \ {hook.selectedAccount} :
           IF account # NoAccount
           THEN /\ hook' = [hook EXCEPT !.selectedAccount = account,
                                        !.isLoaded = FALSE]
                /\ requests' = requests \cup
                                   {[table |-> "categories", account |-> account]}
           ELSE /\ hook' = [hook EXCEPT !.selectedAccount = NoAccount,
                                        !.transactions = {},
                                        !.isLoaded = TRUE]
                /\ requests' = requests
    /\ switches' = switches + 1
    /\ UNCHANGED <<importVars, pc, i, call, frame>>

\* The categories query of fetchCategories resolves with the categories of
\* its account (an account has categories from its first load on, when
\* createDefaultCategories inserts them and sets the same map):
\* setCategories and setCategoryMap, then the render and the
\* second effect, whose dependency categoryMap has changed: with an account
\* selected in that render, fetchTransactionsWithCategories starts its query
\* for that account.
CategoriesResolve ==
    /\ pc = "mounted"
    /\ \E r \in requests :
           /\ r.table = "categories"
           /\ hook' = [hook EXCEPT !.categoryMap = r.account]
           /\ requests' =
                  (requests \ {r}) \cup
                      (IF hook.selectedAccount # NoAccount
                       THEN {[table |-> "transactions",
                              account |-> hook.selectedAccount]}
                       ELSE {})
    /\ UNCHANGED <<importVars, pc, i, call, frame, switches>>

\* The transactions query of fetchTransactionsWithCategories resolves with
\* the rows of its account: setTransactions(mappedTransactions), then
\* setIsLoaded(true) in loadTransactions.
TransactionsResolve ==
    /\ pc = "mounted"
    /\ \E r \in requests :
           /\ r.table = "transactions"
           /\ hook' = [hook EXCEPT !.transactions = rowsOf(r.account),
                                   !.isLoaded = TRUE]
           /\ requests' = requests \ {r}
    /\ UNCHANGED <<importVars, pc, i, call, frame, switches>>

\* A query resolves with an error: console.error and return; after the
\* transactions query loadTransactions still sets isLoaded.
QueryFails ==
    /\ pc = "mounted"
    /\ \E r \in requests :
           /\ hook' = IF r.table = "transactions"
                      THEN [hook EXCEPT !.isLoaded = TRUE]
                      ELSE hook
           /\ requests' = requests \ {r}
    /\ UNCHANGED <<importVars, pc, i, call, frame, switches>>

AccountNext ==
    \/ SetSelectedAccount
    \/ CategoriesResolve
    \/ TransactionsResolve
    \/ QueryFails

AccountSpec == AccountInit /\ [][AccountNext]_vars

-----------------------------------------------------------------------------
(* The loops of the two extractors, one action per iteration.  The index i *)
(* is 0-based as in the source: tokens[i] is call.arg[i + 1].  The         *)
(* position is "outer" at the head of the outer loop, "description" in the *)
(* description loop of the token-stream parser and "suffix" after its      *)
(* value token, "continuation" in the continuation loop of the line parser *)
(* and "parse" after a break out of it, "finished" after the return.       *)

MaxStream == 4

\* the text items of a page in reading order, as pageTextItemsToTokens
\* returns them: a date, a word, values without and with a suffix, a lone
\* suffix, a word of the detail lines
TokenStrs ==
    { <<"1","4","/","1","1">>,
      <<"P","I","X">>,
      <<"5",",","0","0">>,
      <<"5",",","0","0","D">>,
      <<"5",",","0","0","*">>,
      <<"C">>,
      <<"D","O","C">> }

TokenStreams == SeqsUpTo({[str |-> s] : s \in TokenStrs}, MaxStream)

\* /^\d{2}\/\d{2}$/
isDate(s) == Len(s) = 5 /\ IsDDMMAt(s, 1)

\* /^[\d\.]+,\d{2}[CD\*]?$/
isValue(s) ==
    \E c \in 2..Len(s) :
        /\ s[c] = ","
        /\ \A k \in 1..(c - 1) : IsDigit(s[k]) \/ s[k] = "."
        /\ Len(s) >= c + 2 /\ IsDigit(s[c + 1]) /\ IsDigit(s[c + 2])
        /\ \/ Len(s) = c + 2
           \/ Len(s) = c + 3 /\ s[c + 3] \in {"C", "D", "*"}

\* /^[CD]$/
isSuffix(s) == s \in {<<"C">>, <<"D">>}

shouldSkipHistory(desc) ==
    LET d == toUpperCase(desc)
    IN  \/ LiteralAt(d, 1, <<"S","A","L","D","O">>)
        \/ includes(d, <<"S","A","L","D","O"," ">>)
        \/ includes(d, <<"B","L","O","Q">>)
        \/ includes(d, <<"L","I","M","I","T","E">>)

\* the test that breaks the description loop at a word of the detail lines
stopsDescription(s) ==
    LET upper == toUpperCase(s)
    IN  \/ upper = <<"R","E","C","E","B","I","M","E","N","T","O">>
        \/ upper = <<"P","A","G","A","M","E","N","T","O">>
        \/ LiteralAt(upper, 1, <<"D","O","C">>)

\* /[CD]$/.test(valueToken)
endsWithCD(valueToken) ==
    valueToken # <<>> /\ valueToken[Len(valueToken)] \in {"C", "D"}

\* Number(valueStr.replace(/\./g, '').replace(',', '.')) in cents, where
\* valueStr = valueToken.replace(/[CD\*]$/i, ''): NaN when a character other
\* than digits, points and the comma is left
tokenValue(valueToken) ==
    LET last == valueToken[Len(valueToken)]
        valueStr == IF last \in {"C", "D", "c", "d", "*"}
                    THEN SubSeq(valueToken, 1, Len(valueToken) - 1)
                    ELSE valueToken
    IN  IF \E k \in 1..Len(valueStr) :
               ~IsDigit(valueStr[k]) /\ valueStr[k] \notin {".", ","}
        THEN NaN
        ELSE DigitsToNat(SelectSeq(valueStr, LAMBDA c : IsDigit(c)))

\* /\bDEB\b|\bDEB\.|EMIT|TARIFA|PAGAMENTO|SAQUE/.test(upper)
looksLikeDebit(upper) ==
    \/ \E p \in 1..Len(upper) :
           /\ LiteralAt(upper, p, <<"D","E","B">>)
           /\ BoundaryBefore(upper, p)
           /\ BoundaryAfter(upper, p + 2) \/ LiteralAt(upper, p + 3, <<".">>)
    \/ includes(upper, <<"E","M","I","T">>)
    \/ includes(upper, <<"T","A","R","I","F","A">>)
    \/ includes(upper, <<"P","A","G","A","M","E","N","T","O">>)
    \/ includes(upper, <<"S","A","Q","U","E">>)

\* Lines 165-189 of the token-stream parser: the transactions pushed for a
\* date, description parts and value token (none or one)
tokenCandidate(dateDDMM, descParts, valueToken) ==
    LET description == trim(collapseWhitespace(join(descParts)))
        value == tokenValue(valueToken)
        suffix == IF toUpperCase(<<valueToken[Len(valueToken)]>>) \in {<<"C">>, <<"D">>}
                  THEN toUpperCase(<<valueToken[Len(valueToken)]>>)
                  ELSE <<>>
    IN  IF Len(description) < 3 THEN <<>>
        ELSE IF shouldSkipHistory(description) THEN <<>>
        ELSE IF value = NaN \/ value = 0 THEN <<>>
        ELSE <<[date        |-> dateDDMM,
                description |-> substring(description, 0, 100),
                value       |-> value,
                type        |-> IF suffix = <<"D">> THEN "expense"
                                ELSE IF suffix = <<"C">> THEN "income"
                                ELSE IF looksLikeDebit(toUpperCase(description))
                                THEN "expense"
                                ELSE "income"]>>

\* the fields of ParsedTransaction
Real(t) ==
    [date |-> t.date, description |-> t.description, value |-> t.value,
     type |-> t.type, isFuture |-> t.isFuture]

RealAll(transactions) == [k \in 1..Len(transactions) |-> Real(transactions[k])]

\* the body of the continuation loop with a skip-keyword line passed over
\* without the increment of the index
continuationStepStuck(lines, k, comb) ==
    LET next == trim(lines[k + 2])
    IN  IF next = <<>> THEN [i |-> k + 1, combined |-> comb, leave |-> FALSE]
        ELSE IF datePattern(next) > 0
        THEN [i |-> k, combined |-> comb, leave |-> TRUE]
        ELSE IF shouldSkip(next)
        THEN [i |-> k, combined |-> comb, leave |-> FALSE]
        ELSE LET joined == trim(collapseWhitespace(comb \o <<" ">> \o next))
             IN  [i |-> k + 1, combined |-> joined,
                  leave |-> Len(joined) > MaxCombinedLength]

\* One run of the body of the continuation loop of the line parser, entered
\* with index k and combined comb: the index and combined after it, and
\* whether it left the loop by a break
continuationStep(lines, k, comb) ==
    LET next == trim(lines[k + 2])
    IN  IF next = <<>> THEN [i |-> k + 1, combined |-> comb, leave |-> FALSE]
        ELSE IF datePattern(next) > 0
        THEN [i |-> k, combined |-> comb, leave |-> TRUE]
        ELSE IF shouldSkip(next)
        THEN [i |-> k + 1, combined |-> comb, leave |-> FALSE]
        ELSE LET joined == trim(collapseWhitespace(comb \o <<" ">> \o next))
             IN  [i |-> k + 1, combined |-> joined,
                  leave |-> Len(joined) > MaxCombinedLength]

ScanInit ==
    /\ pc = "outer"
    /\ i = 0
    /\ frame = EmptyFrame
    /\ \/ \E stream \in TokenStreams :
             call = [fn |-> "extractSicoobTransactionsFromTokens",
                     arg |-> stream, res |-> <<>>]
       \/ \E lines \in LineLists :
             call = [fn |-> "extractTransactionsFromLines", arg |-> lines,
                     res |-> <<>>]
    /\ hook = Mounted
    /\ requests = {}
    /\ switches = 0
    /\ today = [year |-> 2025, month |-> 11, day |-> 14]
    /\ utcOffset = -3
    /\ numPages = 0
    /\ statementYear = 0
    /\ allTransactions = <<>>
    /\ withYear = <<>>
    /\ unique = <<>>
    /\ converted = <<>>
    /\ headerSeen = FALSE
    /\ skipLineSeen = FALSE
    /\ firstFullDate = NoFullDate
    /\ preview = <<>>
    /\ previewBefore = <<>>
    /\ error = ""
    /\ failedPage = NoFailure

\* The head of the while loop of the token-stream parser (125-137): a token
\* that is no date is passed; a date token opens a candidate.
TokenSeek ==
    /\ pc = "outer"
    /\ call.fn = "extractSicoobTransactionsFromTokens"
    /\ i < Len(call.arg)
    /\ LET cur == call.arg[i + 1].str
       IN  IF ~isDate(cur)
           THEN /\ frame' = [frame EXCEPT !.top = i, !.outer = @ + 1]
                /\ pc' = "outer"
           ELSE /\ frame' = [frame EXCEPT !.dateDDMM = cur,
                                          !.descParts = <<>>,
                                          !.valueToken = <<>>,
                                          !.top = i,
                                          !.starts = Append(@, i),
                                          !.outer = @ + 1]
                /\ pc' = "description"
    /\ i' = i + 1
    /\ UNCHANGED <<importVars, call, hook, requests, switches>>

\* One test of the condition of the description loop (138-148) and what
\* follows it: the body, which appends the token, or, when the condition is
\* false or the body breaks, the test for a value token at 151-157.
TokenDescribe ==
    /\ pc = "description"
    /\ call.fn = "extractSicoobTransactionsFromTokens"
    /\ IF /\ i < Len(call.arg)
          /\ ~isValue(call.arg[i + 1].str)
          /\ ~isDate(call.arg[i + 1].str)
          /\ ~stopsDescription(call.arg[i + 1].str)
       THEN /\ frame' = [frame EXCEPT !.descParts = Append(@, call.arg[i + 1].str),
                                      !.inner = @ + 1]
            /\ i' = i + 1
            /\ pc' = "description"
       ELSE IF i >= Len(call.arg) \/ ~isValue(call.arg[i + 1].str)
       THEN /\ pc' = "outer"
            /\ UNCHANGED <<frame, i>>
       ELSE /\ frame' = [frame EXCEPT !.valueToken = call.arg[i + 1].str]
            /\ i' = i + 1
            /\ pc' = "suffix"
    /\ UNCHANGED <<importVars, call, hook, requests, switches>>

\* After the value token (159-189): a following C or D token is joined to a
\* value token that does not end in C or D, and the candidate is pushed or
\* dropped.
TokenSuffix ==
    /\ pc = "suffix"
    /\ call.fn = "extractSicoobTransactionsFromTokens"
    /\ LET merge == /\ ~endsWithCD(frame.valueToken)
                    /\ i < Len(call.arg)
                    /\ isSuffix(call.arg[i + 1].str)
           valueToken == IF merge THEN frame.valueToken \o call.arg[i + 1].str
                         ELSE frame.valueToken
       IN  /\ frame' = [frame EXCEPT !.valueToken = valueToken]
           /\ i' = IF merge THEN i + 1 ELSE i
           /\ call' = [call EXCEPT !.res =
                          @ \o tokenCandidate(frame.dateDDMM, frame.descParts,
                                              valueToken)]
    /\ pc' = "outer"
    /\ UNCHANGED <<importVars, hook, requests, switches>>

\* The head of the for loop of the line parser (377-398): a blank line, a
\* header, a skip line and an undated line end the iteration; a dated line
\* opens a candidate.
LineScan ==
    /\ pc = "outer"
    /\ call.fn = "extractTransactionsFromLines"
    /\ i < Len(call.arg)
    /\ LET trimmed == trim(call.arg[i + 1])
       IN  IF trimmed = <<>>
           THEN /\ frame' = [frame EXCEPT !.top = i, !.outer = @ + 1]
                /\ i' = i + 1 /\ pc' = "outer"
           ELSE IF isFutureSectionHeader(trimmed)
           THEN /\ frame' = [frame EXCEPT !.top = i, !.outer = @ + 1,
                                          !.isFutureSection = TRUE]
                /\ i' = i + 1 /\ pc' = "outer"
           ELSE IF shouldSkip(trimmed) \/ datePattern(trimmed) = 0
           THEN /\ frame' = [frame EXCEPT !.top = i, !.outer = @ + 1]
                /\ i' = i + 1 /\ pc' = "outer"
           ELSE /\ frame' = [frame EXCEPT
                                !.top = i,
                                !.outer = @ + 1,
                                !.starts = Append(@, i),
                                !.combined = trimmed,
                                !.dateMatch = SubSeq(trimmed, 1, datePattern(trimmed))]
                /\ i' = i /\ pc' = "continuation"
    /\ UNCHANGED <<importVars, call, hook, requests, switches>>

\* One run of the body of the continuation loop (399-415)
LineContinue ==
    /\ pc = "continuation"
    /\ call.fn = "extractTransactionsFromLines"
    /\ ~hasAnyValue(frame.combined)
    /\ i + 1 < Len(call.arg)
    /\ LET after == continuationStep(call.arg, i, frame.combined)
       IN  /\ frame' = [frame EXCEPT !.combined = after.combined,
                                     !.inner = @ + 1]
           /\ i' = after.i
           /\ pc' = IF after.leave THEN "parse" ELSE "continuation"
    /\ UNCHANGED <<importVars, call, hook, requests, switches>>

\* The rest of the iteration of the for loop (417-475) once the continuation
\* loop is over: the candidate is pushed or dropped and the index incremented.
LineParse ==
    /\ call.fn = "extractTransactionsFromLines"
    /\ \/ pc = "parse"
       \/ /\ pc = "continuation"
          /\ hasAnyValue(frame.combined) \/ ~(i + 1 < Len(call.arg))
    /\ call' = [call EXCEPT !.res =
                   @ \o RealAll(parseCombined(frame.combined, frame.dateMatch,
                                              frame.isFutureSection))]
    /\ i' = i + 1
    /\ pc' = "outer"
    /\ UNCHANGED <<importVars, frame, hook, requests, switches>>

\* return transactions, when the index is past the last token or line
ReturnTransactions ==
    /\ pc = "outer"
    /\ i >= Len(call.arg)
    /\ pc' = "finished"
    /\ UNCHANGED <<importVars, i, call, frame, hook, requests, switches>>

ScanNext ==
    \/ TokenSeek
    \/ TokenDescribe
    \/ TokenSuffix
    \/ LineScan
    \/ LineContinue
    \/ LineParse
    \/ ReturnTransactions

ScanSpec == ScanInit /\ [][ScanNext]_vars

-----------------------------------------------------------------------------
(* Properties.                                                             *)

Returned == pc \in {"returned", "converted"}

\* the raw date of a candidate is DD/MM, or DD/MM/YY
IsDDMM(date) == Len(date) = 5

IsDDMMYY(date) == Len(date) = 8

DayOf(date) == DigitsToNat(SubSeq(date, 1, 2))

MonthOf(date) == DigitsToNat(SubSeq(date, 4, 5))

\* year, month and day of a completed date YYYY-MM-DD
IsoYear(date) == DigitsToNat(SubSeq(date, 1, 4))

IsoMonth(date) == DigitsToNat(SubSeq(date, 6, 7))

IsoDay(date) == DigitsToNat(SubSeq(date, 9, 10))

IsCalendarDay(y, m, d) == m \in 1..12 /\ d \in 1..DaysInMonth(y, m)

\* the day y-m-d is before the processing day / after it
BeforeToday(y, m, d) ==
    \/ y < today.year
    \/ y = today.year /\ m < today.month
    \/ y = today.year /\ m = today.month /\ d < today.day

AfterToday(y, m, d) ==
    \/ y > today.year
    \/ y = today.year /\ m > today.month
    \/ y = today.year /\ m = today.month /\ d > today.day

HasExpenseKeyword(description) ==
    \E k \in 1..Len(expenseKeywords) : includes(toUpperCase(description), expenseKeywords[k])

HasIncomeKeyword(description) ==
    \E k \in 1..Len(incomeKeywords) : includes(toUpperCase(description), incomeKeywords[k])

\* C1: once a future-section header line has been seen in the statement,
\* every candidate parsed from a later line, on the same page or on a later
\* one, has isFuture = TRUE.
C1_FutureFlagKeptToEndOfStatement ==
    \A k \in 1..Len(allTransactions) :
        allTransactions[k].afterHeader => allTransactions[k].isFuture

\* C2: a candidate whose selected value carries the suffix C is an income and
\* one whose selected value carries the suffix D is an expense, whatever
\* keywords its description contains.
C2_SuffixDecidesType ==
    \A k \in 1..Len(allTransactions) :
        LET t == allTransactions[k]
        IN  /\ t.suffix = <<"C">> => t.type = "income"
            /\ t.suffix = <<"D">> => t.type = "expense"

\* a credit row whose description has an expense keyword and a debit row whose
\* description has an income keyword have both been parsed
C2_Witness ==
    /\ \E k \in 1..Len(allTransactions) :
           /\ allTransactions[k].suffix = <<"C">>
           /\ HasExpenseKeyword(allTransactions[k].description)
           /\ allTransactions[k].type = "income"
    /\ \E k \in 1..Len(allTransactions) :
           /\ allTransactions[k].suffix = <<"D">>
           /\ HasIncomeKeyword(allTransactions[k].description)
           /\ ~HasExpenseKeyword(allTransactions[k].description)
           /\ allTransactions[k].type = "expense"

\* C3: no transaction, parsed or returned, contains text of a line that
\* contains SALDO, BLOQ or LIMITE.
C3_NoTextFromBalanceLines ==
    /\ \A k \in 1..Len(allTransactions) :
           \A n \in 1..Len(allTransactions[k].src) :
               ~HasBalanceWord(allTransactions[k].src[n])
    /\ \A k \in 1..Len(unique) :
           \A n \in 1..Len(unique[k].src) : ~HasBalanceWord(unique[k].src[n])

\* a statement with such a line has been parsed to the end and has yielded
\* transactions
C3_Witness ==
    /\ pc = "returned"
    /\ skipLineSeen
    /\ unique # <<>>

\* index in withYear of the first transaction equal to t on the four fields
FirstEqual(t) ==
    CHOOSE k \in 1..Len(withYear) :
        /\ SameTransaction(withYear[k], t)
        /\ \A j \in 1..(k - 1) : ~SameTransaction(withYear[j], t)

\* C4: the returned list has no two transactions equal on (date,
\* description, value, type); each returned transaction is the first of its
\* group of equals among the completed candidates, every group has its
\* survivor, and the survivors keep their order.
C4_FirstOfEachGroupInOrder ==
    Returned =>
        /\ \A a, b \in 1..Len(unique) :
               a # b => ~SameTransaction(unique[a], unique[b])
        /\ \A k \in 1..Len(withYear) :
               \E a \in 1..Len(unique) : SameTransaction(unique[a], withYear[k])
        /\ \A a \in 1..Len(unique) :
               /\ \E k \in 1..Len(withYear) : SameTransaction(withYear[k], unique[a])
               /\ unique[a] = withYear[FirstEqual(unique[a])]
        /\ \A a, b \in 1..Len(unique) :
               a < b => FirstEqual(unique[a]) < FirstEqual(unique[b])

\* a row repeated on two pages has been dropped, and so has a duplicate that
\* stood between two survivors
C4_Witness ==
    /\ pc = "returned"
    /\ \E j, k \in 1..Len(withYear) :
           /\ j < k
           /\ withYear[j].page # withYear[k].page
           /\ SameTransaction(withYear[j], withYear[k])
    /\ Len(unique) >= 2
    /\ Len(unique) < Len(withYear)

\* the two candidates are the same row but for the year of the completed date
SameButYear(j, k) ==
    /\ SubSeq(allTransactions[j].date, 1, 5) = SubSeq(allTransactions[k].date, 1, 5)
    /\ allTransactions[j].description = allTransactions[k].description
    /\ allTransactions[j].value = allTransactions[k].value
    /\ allTransactions[j].type = allTransactions[k].type
    /\ IsoYear(withYear[j].date) # IsoYear(withYear[k].date)

\* C5: two candidates with the same day/month, description, value and type
\* whose completed dates are in different years both survive deduplication.
C5_DedupAfterYearCompletion ==
    Returned =>
        \A j, k \in 1..Len(allTransactions) :
            SameButYear(j, k) =>
                \E a, b \in 1..Len(unique) :
                    /\ a # b
                    /\ SameTransaction(unique[a], withYear[j])
                    /\ SameTransaction(unique[b], withYear[k])

\* a DD/MM row was parsed outside and inside a future section, and only the
\* second was rolled into the next year
C5_Witness ==
    /\ pc = "returned"
    /\ \E j, k \in 1..Len(allTransactions) :
           /\ SameButYear(j, k)
           /\ allTransactions[j].date = allTransactions[k].date
           /\ IsDDMM(allTransactions[j].date)
           /\ ~allTransactions[j].isFuture
           /\ allTransactions[k].isFuture

\* C6: a converted row is pending, with dueDate = date and isReconciled =
\* FALSE, exactly when the parsed row is flagged isFuture or its date is
\* strictly after the processing day; otherwise, a row dated today included,
\* it is completed, without dueDate and reconciled.  (Stated for the rows
\* whose date is a day of the calendar.)
C6_PendingExactlyWhenFuture ==
    pc = "converted" =>
        \A k \in 1..Len(unique) :
            LET row == unique[k]
                y == IsoYear(row.date)
                m == IsoMonth(row.date)
                d == IsoDay(row.date)
            IN  IsCalendarDay(y, m, d) =>
                    IF row.isFuture \/ AfterToday(y, m, d)
                    THEN /\ converted[k].status = "pending"
                         /\ converted[k].dueDate = row.date
                         /\ converted[k].isReconciled = FALSE
                    ELSE /\ converted[k].status = "completed"
                         /\ converted[k].dueDate = Undefined
                         /\ converted[k].isReconciled = TRUE

\* C7: a DD/MM date completes to Y-MM-DD, zero-padded, Y the resolved
\* statement year, and the result is a day of the calendar.  (Stated for the
\* rows outside a future section, which keep the year Y.)
C7_CompletedDateIsCalendarDay ==
    Returned =>
        \A k \in 1..Len(allTransactions) :
            (IsDDMM(allTransactions[k].date) /\ ~allTransactions[k].isFuture) =>
                /\ withYear[k].date =
                       NatToString(statementYear) \o Dash
                           \o SubSeq(allTransactions[k].date, 4, 5) \o Dash
                           \o SubSeq(allTransactions[k].date, 1, 2)
                /\ IsCalendarDay(statementYear, MonthOf(allTransactions[k].date),
                                 DayOf(allTransactions[k].date))

\* C8: a DD/MM row of a future section completes to the year Y + 1 exactly
\* when the day Y-MM-DD is before today, and to Y otherwise; a DD/MM row
\* outside a future section always completes to Y.  (Stated for the rows
\* whose day and month are a day of the calendar.)
C8_RolledExactlyWhenPast ==
    Returned =>
        \A k \in 1..Len(allTransactions) :
            ( /\ IsDDMM(allTransactions[k].date)
              /\ IsCalendarDay(statementYear, MonthOf(allTransactions[k].date),
                               DayOf(allTransactions[k].date)) ) =>
                IsoYear(withYear[k].date) =
                    IF /\ allTransactions[k].isFuture
                       /\ BeforeToday(statementYear, MonthOf(allTransactions[k].date),
                                      DayOf(allTransactions[k].date))
                    THEN statementYear + 1
                    ELSE statementYear

\* C9: a DD/MM/YY date completes to 20YY-MM-DD, whatever the statement year
\* and whether or not the row is in a future section.
C9_OwnYearTakesPrecedence ==
    Returned =>
        \A k \in 1..Len(allTransactions) :
            IsDDMMYY(allTransactions[k].date) =>
                withYear[k].date =
                    <<"2", "0">> \o SubSeq(allTransactions[k].date, 7, 8) \o Dash
                        \o SubSeq(allTransactions[k].date, 4, 5) \o Dash
                        \o SubSeq(allTransactions[k].date, 1, 2)

\* a DD/MM/YY row of a future section, with a day and month before today's
\* and a year that is not the statement year, has been completed
C9_Witness ==
    /\ pc = "returned"
    /\ \E k \in 1..Len(allTransactions) :
           /\ IsDDMMYY(allTransactions[k].date)
           /\ allTransactions[k].isFuture
           /\ 2000 + DigitsToNat(SubSeq(allTransactions[k].date, 7, 8)) # statementYear
           /\ \/ MonthOf(allTransactions[k].date) < today.month
              \/ /\ MonthOf(allTransactions[k].date) = today.month
                 /\ DayOf(allTransactions[k].date) < today.day

\* every DD/MM date was completed with the one statement year (plus one for a
\* rolled row of a future section)
CompletedWithStatementYear ==
    \A k \in 1..Len(allTransactions) :
        IsDDMM(allTransactions[k].date) =>
            \/ IsoYear(withYear[k].date) = statementYear
            \/ /\ allTransactions[k].isFuture
               /\ IsoYear(withYear[k].date) = statementYear + 1

\* C10, as claimed: the statement year is the year of the first DD/MM/YYYY of
\* the whole statement, or the current year when the statement has none.
C10_YearOfFirstFullDateOfStatement ==
    Returned =>
        /\ statementYear = IF firstFullDate # NoFullDate
                           THEN firstFullDate.year
                           ELSE today.year
        /\ CompletedWithStatementYear

\* C10, amended: the statement year is the year of the first DD/MM/YYYY of
\* page 1 (when it is not 0000), or the current year when page 1 has none;
\* the later pages are not consulted.
C10_YearOfFirstFullDateOfPageOne ==
    Returned =>
        /\ statementYear = IF firstFullDate.page = 1 /\ firstFullDate.year # 0
                           THEN firstFullDate.year
                           ELSE today.year
        /\ CompletedWithStatementYear

\* page 1 showed a year that is not the current one, and DD/MM rows of two
\* pages were completed with it
C10_Witness ==
    /\ pc = "returned"
    /\ firstFullDate.page = 1
    /\ statementYear # today.year
    /\ \E j, k \in 1..Len(allTransactions) :
           /\ allTransactions[j].page = 1 /\ allTransactions[k].page = 2
           /\ IsDDMM(allTransactions[j].date) /\ IsDDMM(allTransactions[k].date)

\* C11: when the opening of the document or the decoding of a page fails,
\* parsePDF rejects: nothing is returned or converted, whatever the earlier
\* pages yielded, no page is read after the failure, the preview list keeps
\* the value it had, and the dialog's catch block shows an error.
C11_FailureReturnsNothing ==
    failedPage # NoFailure =>
        /\ pc \in {"rejected", "failed"}
        /\ i = (IF failedPage = 0 THEN 0 ELSE failedPage)
        /\ \A k \in 1..Len(allTransactions) : allTransactions[k].page < failedPage
        /\ unique = <<>>
        /\ withYear = <<>>
        /\ converted = <<>>
        /\ preview = previewBefore
        /\ pc = "failed" => error = ErrProcessing

\* page 2 failed after page 1 had yielded candidates, with a preview list
\* from an earlier import on display
C11_Witness ==
    /\ pc = "failed"
    /\ failedPage = 2
    /\ allTransactions # <<>>
    /\ previewBefore # <<>>

\* s is an initial segment of t
IsPrefix(s, t) == Len(s) <= Len(t) /\ SubSeq(t, 1, Len(s)) = s

\* C12: the pages are read in the order 1..N, one per iteration;
\* allTransactions only grows at its end, by the candidates of the page just
\* read, so the candidates of a page precede those of every later page.
C12_PagesInOrderAppendOnly ==
    [][ /\ IsPrefix(allTransactions, allTransactions')
        /\ \A k \in (Len(allTransactions) + 1)..Len(allTransactions') :
               allTransactions'[k].page = i /\ i' = i + 1
        /\ i' \in {i, i + 1}
        /\ i' <= numPages' + 1
        /\ \A j, k \in 1..Len(allTransactions') :
               j < k => allTransactions'[j].page <= allTransactions'[k].page
      ]_vars

\* two pages have been read and both yielded candidates
C12_Witness ==
    /\ pc = "returned"
    /\ numPages = 2
    /\ \E j, k \in 1..Len(allTransactions) :
           allTransactions[j].page = 1 /\ allTransactions[k].page = 2

\* the call of fn has returned
Done(fn) == pc = "done" /\ call.fn = fn

\* seq without its element p
RemoveAt(seq, p) == SubSeq(seq, 1, p - 1) \o SubSeq(seq, p + 1, Len(seq))

\* the line starts a row: it begins with a date and is neither a header nor
\* a line with a skip keyword
IsDatedLine(line) ==
    /\ datePattern(trim(line)) > 0
    /\ ~isFutureSectionHeader(trim(line))
    /\ ~shouldSkip(trim(line))

\* the dated line yields a candidate by itself
WellFormedAlone(line) ==
    /\ IsDatedLine(line)
    /\ parseCombined(trim(line), SubSeq(trim(line), 1, datePattern(trim(line))),
                     FALSE) # <<>>

\* the row that starts at line p, continuation lines included, yields no
\* candidate: it has no value, only zero values, or too short a description
MalformedRow(lines, p) ==
    /\ IsDatedLine(lines[p])
    /\ LET trimmed == trim(lines[p])
           joined == absorbContinuation(lines, p, trimmed, <<p>>)
       IN  parseCombined(joined.combined, SubSeq(trimmed, 1, datePattern(trimmed)),
                         FALSE) = <<>>

\* C13: a malformed dated row yields no candidate and leaves the candidates of
\* the well-formed dated rows of the page as they are without it: the page
\* with the row and the page without it give the same transactions.
C13_MalformedRowChangesNothing ==
    Done("extractTransactionsFromLines") =>
        \A p \in 1..Len(call.arg) :
            ( /\ MalformedRow(call.arg, p)
              /\ \A q \in 1..Len(call.arg) :
                     (q # p /\ IsDatedLine(call.arg[q])) => WellFormedAlone(call.arg[q]) )
            => RealAll(extractTransactionsFromLines(RemoveAt(call.arg, p)))
                   = RealAll(call.res[1])

\* C14: every transaction of the import adapter, from convertToTransactions
\* as from convertPDFToTransactions, has a status that is completed or
\* pending, no category, no payment method, and isImported set.
C14_AdapterFields ==
    LET ok(t) == /\ "status" \in DOMAIN t
                 /\ t.status \in {"completed", "pending"}
                 /\ t.category = Null
                 /\ t.paymentMethod = Null
                 /\ t.isImported = TRUE
    IN  /\ \A k \in 1..Len(converted) : ok(converted[k])
        /\ Done("handleFile") =>
               \A k \in 1..Len(call.res[1].transactions) :
                   ok(call.res[1].transactions[k])

\* C15: parseCSV of "15/03/2024;Venda produto;150,00" is one row: date
\* 2024-03-15, description Venda produto, value 150, type income.
C15_VendaProdutoRow ==
    (Done("handleFile") /\ call.arg = CsvVenda) =>
        /\ Len(call.res[1].parsed) = 1
        /\ call.res[1].parsed[1].date = <<"2", "0", "2", "4", "-", "0", "3", "-", "1", "5">>
        /\ call.res[1].parsed[1].description = <<"V", "e", "n", "d", "a", " ", "p", "r", "o", "d", "u", "t", "o">>
        /\ call.res[1].parsed[1].value =
               [nan |-> FALSE, neg |-> FALSE, int |-> 150, frac |-> <<>>]
        /\ call.res[1].parsed[1].type = "income"

\* the value field of a line of a file: the third field under the file's
\* delimiter, the semicolon when the line has one
ValueField(line) ==
    LET bySemicolon == split(line, ";")
        byComma == split(line, ",")
    IN  IF Len(bySemicolon) >= 3 THEN stripQuotes(trim(bySemicolon[3]))
        ELSE IF Len(byComma) >= 3 THEN stripQuotes(trim(byComma[3]))
        ELSE <<>>

\* the positive magnitude of a value field, the decimal comma read as a point
Magnitude(field) ==
    mathAbs(parseFloat(replaceFirstComma(
        SelectSeq(field, LAMBDA c : c \notin {"R", "$"} /\ ~IsSpace(c)))))

\* C16: a row of parseCSV is an expense exactly when its value field has a
\* leading '-', an income otherwise, and its value is the positive magnitude
\* of the field.
C16_SignDecidesTypeAndMagnitude ==
    Done("handleFile") =>
        \A k \in 1..Len(call.res[1].parsed) :
            LET row == call.res[1].parsed[k]
                field == ValueField(row.src)
            IN  /\ row.type = "expense" <=> (Len(field) >= 1 /\ field[1] = "-")
                /\ row.value = Magnitude(field)

\* C17: a first line with 'data', 'date' or 'valor' is skipped as the header
\* and the other lines are parsed; in a file none of whose lines has such a
\* word no line is skipped: every line, the first included, is parsed, and
\* yields a row when it has three fields and a positive value.
C17_OnlyAHeaderIsSkipped ==
    Done("handleFile") =>
        LET lines == split(trim(call.arg), "\n")
            rows == call.res[1].parsed
        IN  /\ hasHeaderWord(toLowerCase(lines[1])) => rows = parseLines(Tail(lines), 1)
            /\ (\A k \in 1..Len(lines) : ~hasHeaderWord(toLowerCase(lines[k])))
                   => rows = parseLines(lines, 1)

\* C18: deduplicateTransactions applied to what it returned gives the same
\* list, the same elements in the same order.
C18_DedupIdempotent ==
    Returned => deduplicateTransactions(unique) = unique

\* duplicates were dropped, and the list returned has transactions that
\* differ, whose order a second pass could change
C18_Witness ==
    /\ pc = "returned"
    /\ deduplicateTransactions(withYear) # withYear
    /\ \E a, b \in 1..Len(unique) : ~SameTransaction(unique[a], unique[b])

\* a comes before b: by y descending then x ascending, or by x ascending
Before(order, a, b) ==
    IF order = "yx" THEN a.y > b.y \/ (a.y = b.y /\ a.x < b.x) ELSE a.x < b.x

\* t put into the ordered sequence, behind the elements it does not come before
InsertOrdered(order, ordered, t) ==
    LET behind == Cardinality({k \in 1..Len(ordered) : ~Before(order, t, ordered[k])})
    IN  SubSeq(ordered, 1, behind) \o <<t>> \o SubSeq(ordered, behind + 1, Len(ordered))

RECURSIVE ReferenceSort(_, _)
ReferenceSort(order, seq) ==
    IF seq = <<>> THEN <<>>
    ELSE InsertOrdered(order, ReferenceSort(order, SubSeq(seq, 1, Len(seq) - 1)),
                       seq[Len(seq)])

\* index, in the sorted tokens, of the first token of the row of token k
RECURSIVE RowStart(_, _)
RowStart(sorted, k) ==
    IF k = 1 THEN 1
    ELSE LET start == RowStart(sorted, k - 1)
         IN  IF sorted[k].y - sorted[start].y <= yTolerance
                /\ sorted[start].y - sorted[k].y <= yTolerance
             THEN start
             ELSE k

\* the rows of the reference algorithm
ReferenceRows(tokens) ==
    LET sorted == ReferenceSort("yx", tokens)
        starts == {k \in 1..Len(sorted) : RowStart(sorted, k) = k}
        nth(r) == CHOOSE k \in starts : Cardinality({j \in starts : j < k}) = r - 1
        row(r) == SelectSeq([k \in 1..Len(sorted) |-> [t |-> sorted[k], k |-> k]],
                            LAMBDA e : RowStart(sorted, e.k) = nth(r))
    IN  [r \in 1..Cardinality(starts) |->
            ReferenceSort("x", [k \in 1..Len(row(r)) |-> row(r)[k].t])]

\* number of places of the token in the rows / in the list
PlacesInRows(rows, t) ==
    Cardinality({<<r, k>> \in (1..Len(rows)) \X (1..MaxTokens + 1) :
                    k <= Len(rows[r]) /\ rows[r][k] = t})

PlacesInList(tokens, t) == Cardinality({k \in 1..Len(tokens) : tokens[k] = t})

\* C19: reconstructLines returns the rows of the reference algorithm: the
\* tokens sorted by y descending then x ascending, a token joining the
\* current row when its y is within yTolerance of the y of the row's first
\* token and starting a new row otherwise, every row ordered by x and joined
\* with blanks.  The rows come out top to bottom, every token is in exactly
\* one row, and no tokens give no lines.
C19_RowsOfTheReferenceAlgorithm ==
    Done("reconstructLines") =>
        LET rows == call.res[1].rows
            lines == call.res[1].lines
            ref == ReferenceRows(call.arg)
        IN  /\ rows = ref
            /\ lines = [r \in 1..Len(ref) |->
                           join([k \in 1..Len(ref[r]) |-> ref[r][k].str])]
            /\ \A r \in 1..(Len(rows) - 1) :
                   \A j \in 1..Len(rows[r]), k \in 1..Len(rows[r + 1]) :
                       rows[r][j].y > rows[r + 1][k].y
            /\ \A k \in 1..Len(call.arg) :
                   PlacesInRows(rows, call.arg[k]) = PlacesInList(call.arg, call.arg[k])
            /\ Len(call.arg) = 0 => lines = <<>>

\* tokens at y 13, 8 and 6 came out as two rows: 8 joined the row of 13, and
\* 6, within the tolerance of 8 but not of 13, started the next row
C19_Witness ==
    /\ Done("reconstructLines")
    /\ Len(call.res[1].rows) = 2
    /\ Len(call.res[1].rows[1]) = 2
    /\ {call.res[1].rows[1][1].y, call.res[1].rows[1][2].y} = {13, 8}
    /\ call.res[1].rows[2][1].y = 6

\* the text the candidate was parsed from: its lines joined with blanks
Combined(t) ==
    trim(collapseWhitespace(join([k \in 1..Len(t.src) |-> trim(t.src[k])])))

\* every match of the value pattern in the text, in order, zero amounts too
RECURSIVE AllMatches(_, _)
AllMatches(text, lastIndex) ==
    LET match == valuePatternExec(text, lastIndex)
    IN  IF ~match.ok THEN <<>>
        ELSE <<[value |-> parseValue(match.numStr),
                suffix |-> toUpperCase(match.suffix)]>>
                 \o AllMatches(text, match.lastIndex)

\* the first value with a C or D suffix, or the first value when none has one
FirstSuffixedOrFirst(values) ==
    LET suffixed == SelectSeq(values, LAMBDA v : v.suffix \in {<<"C">>, <<"D">>})
    IN  IF suffixed # <<>> THEN suffixed[1] ELSE values[1]

\* C20: the value of a candidate whose row has more than one
\* value is the first value of the row with a C or D suffix, or the first
\* value of the row when none has such a suffix.
C20_FirstSuffixedValueOfRow ==
    Done("extractTransactionsFromLines") =>
        \A k \in 1..Len(call.res[1]) :
            LET values == AllMatches(Combined(call.res[1][k]), 0)
            IN  Len(values) > 1 =>
                    call.res[1][k].value = FirstSuffixedOrFirst(values).value

\* the first k lines of src joined as the continuation loop joins them
JoinedUpTo(src, k) ==
    trim(collapseWhitespace(join([j \in 1..k |-> trim(src[j])])))

\* the dated line has no value: its row goes on to a later line
ValuelessRow(line) == IsDatedLine(line) /\ ~hasAnyValue(trim(line))

\* the line can be taken into the row of an earlier line: it is not blank,
\* starts with no date and has no skip keyword
Absorbable(line) ==
    /\ trim(line) # <<>>
    /\ datePattern(trim(line)) = 0
    /\ ~shouldSkip(trim(line))

\* lines without the lines p..q
RemoveRange(lines, p, q) == SubSeq(lines, 1, p - 1) \o SubSeq(lines, q + 1, Len(lines))

\* C21: a dated row with no value takes the following undated lines without
\* a skip keyword into its candidate, and only while it has no value and is
\* not past 400 characters; a line that starts with a date is never taken:
\* it starts its own candidate and the row without a value yields none.
C21_ContinuationStopsAtNextDate ==
    Done("extractTransactionsFromLines") =>
        LET lines == call.arg
            res == call.res[1]
        IN  /\ \A k \in 1..Len(res) :
                   /\ datePattern(trim(res[k].src[1])) > 0
                   /\ \A j \in 2..Len(res[k].src) :
                          /\ Absorbable(res[k].src[j])
                          /\ ~hasAnyValue(JoinedUpTo(res[k].src, j - 1))
                          /\ Len(JoinedUpTo(res[k].src, j - 1)) <= MaxCombinedLength
            /\ \A p \in 1..(Len(lines) - 1) :
                   ValuelessRow(lines[p]) =>
                       LET two == JoinedUpTo(SubSeq(lines, p, p + 1), 2)
                       IN  /\ datePattern(trim(lines[p + 1])) > 0 =>
                                  RealAll(res) = RealAll(extractTransactionsFromLines(
                                                             RemoveAt(lines, p)))
                           /\ ( /\ Absorbable(lines[p + 1])
                                /\ ~isFutureSectionHeader(trim(lines[p + 1]))
                                /\ ~hasAnyValue(two)
                                /\ Len(two) > MaxCombinedLength ) =>
                                  RealAll(res) = RealAll(extractTransactionsFromLines(
                                                             RemoveRange(lines, p, p + 1)))
                           /\ ( /\ Absorbable(lines[p + 1])
                                /\ WellFormedAlone(two) ) =>
                                  \E k \in 1..Len(res) :
                                      res[k].src = SubSeq(lines, p, p + 1)

\* a row without a value stands right before a dated line: the dated line
\* gave a candidate of its own and the row gave none
C21_Witness ==
    /\ Done("extractTransactionsFromLines")
    /\ \E p \in 1..(Len(call.arg) - 1) :
           /\ ValuelessRow(call.arg[p])
           /\ datePattern(trim(call.arg[p + 1])) > 0
           /\ \E k \in 1..Len(call.res[1]) : call.res[1][k].src = <<call.arg[p + 1]>>
           /\ \A k \in 1..Len(call.res[1]) : call.res[1][k].src[1] # call.arg[p]

\* C22: a candidate whose selected value has no C or D suffix is an expense
\* when its description has an expense keyword, else an income when it has an
\* income keyword, else an expense: with keywords of both lists it is an
\* expense, with none it is an expense.
C22_KeywordsDecideTypeWithoutSuffix ==
    Done("extractTransactionsFromLines") =>
        \A k \in 1..Len(call.res[1]) :
            LET t == call.res[1][k]
            IN  t.suffix \notin {<<"C">>, <<"D">>} =>
                    t.type = IF HasExpenseKeyword(t.description) THEN "expense"
                             ELSE IF HasIncomeKeyword(t.description) THEN "income"
                             ELSE "expense"

\* the page gave a candidate without a suffix for each case: keywords of both
\* lists, an income keyword only, and no keyword
C22_Witness ==
    /\ Done("extractTransactionsFromLines")
    /\ \E j, k, n \in 1..Len(call.res[1]) :
           /\ \A m \in {j, k, n} : call.res[1][m].suffix = <<>>
           /\ HasExpenseKeyword(call.res[1][j].description)
           /\ HasIncomeKeyword(call.res[1][j].description)
           /\ call.res[1][j].type = "expense"
           /\ ~HasExpenseKeyword(call.res[1][k].description)
           /\ HasIncomeKeyword(call.res[1][k].description)
           /\ call.res[1][k].type = "income"
           /\ ~HasExpenseKeyword(call.res[1][n].description)
           /\ ~HasIncomeKeyword(call.res[1][n].description)
           /\ call.res[1][n].type = "expense"

\* the amount of a value field of a CSV line is a number other than zero
NonZeroField(field) ==
    LET n == Magnitude(field)
    IN  ~n.nan /\ (n.int > 0 \/ \E k \in 1..Len(n.frac) : n.frac[k] # "0")

RECURSIVE MatchesInContext(_, _)
MatchesInContext(text, lastIndex) ==
    LET match == valuePatternExec(text, lastIndex)
    IN  IF ~match.ok THEN <<>>
        ELSE <<[value   |-> parseValue(match.numStr),
                suffix  |-> toUpperCase(match.suffix),
                alone   |-> \/ match.lastIndex = Len(text)
                            \/ IsSpace(text[match.lastIndex + 1]),
                leading |-> match.index >= 1 /\ IsDigit(text[match.index])]>>
                 \o MatchesInContext(text, match.lastIndex)

\* the matches of the text of the candidate that have its value and suffix
SelectedMatches(t) ==
    SelectSeq(MatchesInContext(Combined(t), 0),
              LAMBDA m : m.value = t.value /\ m.suffix = t.suffix)

\* C25: a C or D is the suffix of a value only as a character of its own
\* right after the value, blanks allowed between them, with a blank or the
\* end of the line after it; the first letter of a word after the value is
\* not a suffix.
C25_SuffixIsStandaloneCharacter ==
    Done("extractTransactionsFromLines") =>
        \A k \in 1..Len(call.res[1]) :
            call.res[1][k].suffix \in {<<"C">>, <<"D">>} =>
                \A m \in 1..Len(SelectedMatches(call.res[1][k])) :
                    SelectedMatches(call.res[1][k])[m].alone

\* C26: an amount is read in full with thousands separators (1.234,56 is
\* 1234.56) and without them (1234,56 is 1234.56): no digit of the amount
\* stays in front of the value, in the description.
C26_AmountReadInFull ==
    Done("extractTransactionsFromLines") =>
        /\ \A k \in 1..Len(call.res[1]) :
               \A m \in 1..Len(SelectedMatches(call.res[1][k])) :
                   ~SelectedMatches(call.res[1][k])[m].leading
        /\ call.arg = <<LineThousands>> =>
               /\ Len(call.res[1]) = 1
               /\ call.res[1][1].value = 123456
               /\ call.res[1][1].description = <<"P", "I", "X">>
        /\ call.arg = <<LineFourDigits>> =>
               /\ Len(call.res[1]) = 1
               /\ call.res[1][1].value = 123456
               /\ call.res[1][1].description = <<"T", "E", "D">>

\* C27: a line that matches a future-section header pattern sets the future
\* flag and gives no text to a candidate, also right after a dated row that
\* has no value yet: no candidate has a header line among its lines, and a
\* candidate whose row starts after a header line is a future one.
C27_HeaderNeverAbsorbed ==
    Done("extractTransactionsFromLines") =>
        /\ \A k \in 1..Len(call.res[1]) :
               \A j \in 1..Len(call.res[1][k].src) :
                   ~isFutureSectionHeader(trim(call.res[1][k].src[j]))
        /\ \A k \in 1..Len(call.res[1]) :
               call.res[1][k].afterHeader => call.res[1][k].isFuture

\* the amount of a value field written with a decimal comma: thousands
\* separators dropped, the comma read as the decimal point
DecimalCommaAmount(field) ==
    mathAbs(parseFloat(replaceFirstComma(
        SelectSeq(field, LAMBDA c : c \notin {"R", "$", "."} /\ ~IsSpace(c)))))

\* C28: the row of a semicolon-delimited line whose value field has a
\* decimal comma has the full amount of the field as its value, cents
\* included.
C28_DecimalCommaAmountInFull ==
    Done("handleFile") =>
        \A k \in 1..Len(call.res[1].parsed) :
            LET row == call.res[1].parsed[k]
            IN  ( /\ Len(split(row.src, ";")) = 3
                  /\ includes(ValueField(row.src), <<",">>) )
                => row.value = DecimalCommaAmount(ValueField(row.src))

\* C29: under every interleaving of account selections and resolving
\* queries, once no query of the hook is in flight the transactions in state
\* are rows of the selected account: the rows a query fetched for an account
\* selected before do not replace them.
C29_TransactionsOfSelectedAccount ==
    (pc = "mounted" /\ requests = {}) =>
        \A account \in hook.transactions : account = hook.selectedAccount

\* the state of the three-state machine at a position of the token-stream
\* parser
MachineState(position) ==
    CASE position = "outer"       -> "Seeking"
      [] position = "description" -> "InDescription"
      [] position = "suffix"      -> "AwaitingSuffix"
      [] OTHER                    -> "End"

\* the token at the index of the token-stream parser
TokenAtIndex == call.arg[i + 1].str

\* C23: the token-stream parser refines the machine with the states Seeking,
\* InDescription and AwaitingSuffix: a date token takes Seeking to
\* InDescription; in InDescription a token that is no value is appended to
\* the description and the state is kept, and only a value token leaves it,
\* to AwaitingSuffix; there a following lone C or D is joined to the value
\* only when the value has no suffix yet; at the end of the stream a
\* candidate without a value is dropped.
C23_RefinesThreeStateMachine ==
    [][ call.fn = "extractSicoobTransactionsFromTokens" =>
          /\ ( /\ MachineState(pc) = "Seeking"
               /\ i < Len(call.arg) )
             => MachineState(pc') = IF isDate(TokenAtIndex) THEN "InDescription"
                                    ELSE "Seeking"
          /\ ( /\ MachineState(pc) = "InDescription"
               /\ i < Len(call.arg)
               /\ ~isValue(TokenAtIndex) )
             => /\ MachineState(pc') = "InDescription"
                /\ frame'.descParts = Append(frame.descParts, TokenAtIndex)
          /\ ( /\ MachineState(pc) = "InDescription"
               /\ i < Len(call.arg)
               /\ isValue(TokenAtIndex) )
             => MachineState(pc') = "AwaitingSuffix"
          /\ ( /\ MachineState(pc) = "InDescription"
               /\ i >= Len(call.arg) )
             => /\ MachineState(pc') = "Seeking"
                /\ call'.res = call.res
          /\ MachineState(pc) = "AwaitingSuffix"
             => /\ MachineState(pc') = "Seeking"
                /\ frame'.valueToken # frame.valueToken
                   => /\ i < Len(call.arg)
                      /\ isSuffix(TokenAtIndex)
                      /\ ~endsWithCD(frame.valueToken)
                      /\ frame'.valueToken = frame.valueToken \o TokenAtIndex
      ]_vars

\* what a step of a loop of an extractor does to the index: the index never
\* goes back; an iteration of the outer loop ends with the index past the
\* place where it began; an iteration of the inner loop that stays in the
\* loop moves the index by one; a candidate begins at the index, past every
\* place where a candidate began before
Advance ==
    /\ i' >= i
    /\ pc' = "outer" => i' > frame'.top
    /\ (pc \in {"description", "continuation"} /\ pc' = pc) => i' = i + 1
    /\ frame'.starts # frame.starts =>
           /\ frame'.starts = Append(frame.starts, i)
           /\ \A k \in 1..Len(frame.starts) : frame.starts[k] < i

\* C30: both extractors end on every input: each iteration of the outer
\* loop and of the inner loop moves the index forward or leaves its loop, the
\* index stays within the input, neither loop runs more iterations than the
\* input has lines or tokens, and no line or token begins a candidate twice.
C30_LoopsAdvanceAndEnd ==
    /\ [][Advance]_vars
    /\ [](/\ i <= Len(call.arg)
          /\ frame.outer <= Len(call.arg)
          /\ frame.inner <= Len(call.arg))

\* a run has returned after two candidates began and the inner loop ran
C30_Witness ==
    /\ pc = "finished"
    /\ Len(frame.starts) >= 2
    /\ frame.inner >= 1

=============================================================================
